---- MODULE Spec2Model ----
(***************************************************************************)
(* Port forwarding manager of lxc-go-cli (cmd/root.go, helpers/port.go).   *)
(*                                                                         *)
(* A Go string is a sequence of one-character strings, so that Sprintf,    *)
(* strings.Split, strings.ToLower/ToUpper and strconv.Atoi are computed    *)
(* character by character.  One behaviour is one run of the command-line   *)
(* tool against a host: the host's bound sockets, the answer of the        *)
(* existence oracle and the outcome of the lxc command are the             *)
(* environment; every external call the run makes is one step.             *)
(* Spec is a run of `port add`, SpecList a run of `port list` over a       *)
(* container configuration drawn by its initial state.                     *)
(* SpecParse and SpecProbe are calls of parsePortMapping and of            *)
(* helpers.IsPortAvailable, SpecAddList a `port add` followed by a         *)
(* `port list`, SpecCreate a run of `create` (cmd/create.go) and SpecGpu   *)
(* runs of `gpu` (cmd/gpu.go, helpers/gpu.go) one after another.           *)
(***************************************************************************)
EXTENDS Integers, Sequences, FiniteSets, TLC

VARIABLES
    bound,      \* <<port, protocol>> sockets held by other processes
    devices,    \* devices recorded in the containers' configuration
    pc,         \* position of the running invocation
    req,        \* arguments of configurePortForwarding
    legs,       \* protocols still to configure, the first is the current leg
    calls,      \* external calls made by the running invocation, in order
    result,     \* error returned by the invocation (Nil: none)
    lst,        \* the running `port list` invocation
    prb,        \* a call of helpers.IsPortAvailable on its own
    flags,      \* the package variables the command-line flags are parsed into
    prs,        \* a call of parsePortMapping on its own
    crt,        \* the running `create` invocation
    gpu         \* the running `gpu` invocation and the container's GPU settings

addVars == <<pc, req, legs, calls, result>>

otherCmds == <<prs, crt, gpu>>

vars == <<bound, devices, pc, req, legs, calls, result, lst, prb, flags, prs, crt, gpu>>

----------------------------------------------------------------------------
(* Bounds and program constants *)

\* longest generated container name
MaxNameLen == 2

\* most devices in a container configuration that is listed
MaxDevices == 2

\* default of the --timeout flag, in seconds
DefaultTimeout == 30

\* port range accepted by validatePortForwardingArgs and IsPortAvailable
MinPort == 1
MaxPort == 65535

----------------------------------------------------------------------------
(* String literals *)

TCP   == <<"t", "c", "p">>
UDP   == <<"u", "d", "p">>
BOTH  == <<"b", "o", "t", "h">>
PROXY == <<"p", "r", "o", "x", "y">>
ANYIP == <<"0", ".", "0", ".", "0", ".", "0">>
S_lxc == <<"l", "x", "c">>
S_config == <<"c", "o", "n", "f", "i", "g">>
S_device == <<"d", "e", "v", "i", "c", "e">>
S_add == <<"a", "d", "d">>
S_connectEq == <<"c", "o", "n", "n", "e", "c", "t", "=">>
S_listenEq == <<"l", "i", "s", "t", "e", "n", "=">>

UpperChars == <<"A", "B", "C", "D", "E", "F", "G", "H", "I", "J", "K", "L", "M",
                "N", "O", "P", "Q", "R", "S", "T", "U", "V", "W", "X", "Y", "Z">>
LowerChars == <<"a", "b", "c", "d", "e", "f", "g", "h", "i", "j", "k", "l", "m",
                "n", "o", "p", "q", "r", "s", "t", "u", "v", "w", "x", "y", "z">>
Digits == <<"0", "1", "2", "3", "4", "5", "6", "7", "8", "9">>

----------------------------------------------------------------------------
(* Library functions of the Go runtime, computed on characters *)

ToLowerChar(c) ==
    IF \E i \in 1..26 : UpperChars[i] = c
    THEN LowerChars[CHOOSE i \in 1..26 : UpperChars[i] = c]
    ELSE c

ToUpperChar(c) ==
    IF \E i \in 1..26 : LowerChars[i] = c
    THEN UpperChars[CHOOSE i \in 1..26 : LowerChars[i] = c]
    ELSE c

ToLower(s) == [i \in 1..Len(s) |-> ToLowerChar(s[i])]

ToUpper(s) == [i \in 1..Len(s) |-> ToUpperChar(s[i])]

IsDigit(c) == \E i \in 1..10 : Digits[i] = c

DigitVal(c) == (CHOOSE i \in 1..10 : Digits[i] = c) - 1

RECURSIVE DecimalValue(_)
DecimalValue(s) ==
    IF s = <<>> THEN 0
    ELSE 10 * DecimalValue(SubSeq(s, 1, Len(s) - 1)) + DigitVal(s[Len(s)])

\* strconv.Atoi on a string shorter than 19 characters: an optional sign,
\* then one or more decimal digits; anything else is a syntax error.
Atoi(s) ==
    IF s = <<>> THEN [ok |-> FALSE, n |-> 0]
    ELSE LET signed == s[1] \in {"+", "-"}
             body   == IF signed THEN Tail(s) ELSE s
         IN  IF body = <<>> \/ \E i \in 1..Len(body) : ~IsDigit(body[i])
             THEN [ok |-> FALSE, n |-> 0]
             ELSE [ok |-> TRUE,
                   n  |-> IF s[1] = "-" THEN 0 - DecimalValue(body)
                                        ELSE DecimalValue(body)]

\* strings.Split(s, sep) for a one-character separator
RECURSIVE Split(_, _)
Split(s, sep) ==
    IF s = <<>> THEN << <<>> >>
    ELSE LET rest == Split(Tail(s), sep)
         IN  IF Head(s) = sep
             THEN << <<>> >> \o rest
             ELSE << <<Head(s)>> \o rest[1] >> \o Tail(rest)

----------------------------------------------------------------------------
(* Errors: the format string of fmt.Errorf and its arguments *)

Nil == [msg |-> "", args |-> <<>>]

Err(msg, args) == [msg |-> msg, args |-> args]

----------------------------------------------------------------------------
(* Inputs of the command line *)

RECURSIVE StringsUpTo(_, _)
StringsUpTo(chars, n) ==
    IF n = 0 THEN { <<>> }
    ELSE LET shorter == StringsUpTo(chars, n - 1)
         IN  shorter \cup { Append(s, c) : s \in shorter, c \in chars }

NameChars == { "w", "-", "8" }

\* every name over NameChars up to MaxNameLen (the empty one included), and
\* a name that itself ends like a device name
ContainerNames ==
    StringsUpTo(NameChars, MaxNameLen) \cup
    { <<"w", "-", "8", "-", "8", "-", "u", "d", "p">> }

HostPorts ==
    { <<>>,
      <<"x">>,
      <<"0">>,
      <<"6", "5", "5", "3", "6">>,
      <<"6", "5", "5", "3", "5">>,
      <<"8", "0">>,
      <<"0", "8", "0">>,
      <<"+", "8", "0">>,
      <<"-", "1">> }

ContainerPorts ==
    { <<>>,
      <<"x">>,
      <<"0">>,
      <<"6", "5", "5", "3", "6">>,
      <<"8">>,
      <<"0", "8">> }

Protocols ==
    { <<>>,
      TCP,
      UDP,
      BOTH,
      <<"T", "C", "P">>,
      <<"B", "o", "T", "h">>,
      <<"h", "t", "t", "p">>,
      <<" ", "t", "c", "p">> }

\* sockets that processes other than the tool may hold on the host
OtherSockets == { <<80, TCP>>, <<80, UDP>> }

NoRequest ==
    [containerName |-> <<>>, hostPort |-> <<>>, containerPort |-> <<>>,
     protocol |-> <<>>, force |-> FALSE]

----------------------------------------------------------------------------
(* cmd/root.go (port command) and internal/helpers/port.go *)

\* mutant: the upper end of the port range is not checked
validatePortForwardingArgs_NoUpperBound(containerName, hostPort, containerPort, protocol) ==
    LET hostPortNum      == Atoi(hostPort)
        containerPortNum == Atoi(containerPort)
        proto == ToLower(IF protocol = <<>> THEN TCP ELSE protocol)
    IN  IF containerName = <<>>
          THEN Err("container name is required", <<>>)
        ELSE IF hostPort = <<>>
          THEN Err("host port is required", <<>>)
        ELSE IF ~hostPortNum.ok
          THEN Err("invalid host port '%s': must be a number", <<hostPort>>)
        ELSE IF hostPortNum.n < MinPort
          THEN Err("invalid host port '%s': must be between 1 and 65535", <<hostPort>>)
        ELSE IF containerPort = <<>>
          THEN Err("container port is required", <<>>)
        ELSE IF ~containerPortNum.ok
          THEN Err("invalid container port '%s': must be a number", <<containerPort>>)
        ELSE IF containerPortNum.n < MinPort
          THEN Err("invalid container port '%s': must be between 1 and 65535",
                   <<containerPort>>)
        ELSE IF proto # TCP /\ proto # UDP /\ proto # BOTH
          THEN Err("invalid protocol '%s': must be 'tcp', 'udp', or 'both'", <<proto>>)
        ELSE Nil

validatePortForwardingArgs(containerName, hostPort, containerPort, protocol) ==
    LET hostPortNum      == Atoi(hostPort)
        containerPortNum == Atoi(containerPort)
        proto == ToLower(IF protocol = <<>> THEN TCP ELSE protocol)
    IN  IF containerName = <<>>
          THEN Err("container name is required", <<>>)
        ELSE IF hostPort = <<>>
          THEN Err("host port is required", <<>>)
        ELSE IF ~hostPortNum.ok
          THEN Err("invalid host port '%s': must be a number", <<hostPort>>)
        ELSE IF hostPortNum.n < MinPort \/ hostPortNum.n > MaxPort
          THEN Err("invalid host port '%s': must be between 1 and 65535", <<hostPort>>)
        ELSE IF containerPort = <<>>
          THEN Err("container port is required", <<>>)
        ELSE IF ~containerPortNum.ok
          THEN Err("invalid container port '%s': must be a number", <<containerPort>>)
        ELSE IF containerPortNum.n < MinPort \/ containerPortNum.n > MaxPort
          THEN Err("invalid container port '%s': must be between 1 and 65535",
                   <<containerPort>>)
        ELSE IF proto # TCP /\ proto # UDP /\ proto # BOTH
          THEN Err("invalid protocol '%s': must be 'tcp', 'udp', or 'both'", <<proto>>)
        ELSE Nil

\* mutant: a socket of either protocol on the port makes the bind fail
IsPortAvailable_AnyProtocol(port, protocol, sockets) ==
    IF port < MinPort \/ port > MaxPort THEN FALSE
    ELSE LET p == ToLower(protocol)
         IN  IF p \in {TCP, UDP}
             THEN <<port, TCP>> \notin sockets /\ <<port, UDP>> \notin sockets
             ELSE FALSE

\* helpers.IsPortAvailable: the bind succeeds iff no other socket of that
\* protocol holds the port; the probe's own socket is closed before it returns.
IsPortAvailable(port, protocol, sockets) ==
    IF port < MinPort \/ port > MaxPort THEN FALSE
    ELSE LET p == ToLower(protocol)
         IN  IF p = TCP THEN <<port, TCP>> \notin sockets
             ELSE IF p = UDP THEN <<port, UDP>> \notin sockets
             ELSE FALSE

\* the sockets IsPortAvailable tries to bind, in order
BindAttempts(port, protocol) ==
    IF port < MinPort \/ port > MaxPort THEN <<>>
    ELSE LET p == ToLower(protocol)
         IN  IF p = TCP THEN << <<port, TCP>> >>
             ELSE IF p = UDP THEN << <<port, UDP>> >>
             ELSE <<>>

FormatPortConflictError(hostPort, protocol) ==
    Err("host port %s (%s) is already in use ... --force",
        <<hostPort, protocol, protocol, hostPort, hostPort, protocol>>)

\* mutant: the device name leaves the container name out
DeviceName_NoContainer(containerName, hostPort, containerPort, protocol) ==
    hostPort \o <<"-">> \o containerPort \o <<"-">> \o protocol

\* fmt.Sprintf("%s-%s-%s-%s", containerName, hostPort, containerPort, protocol)
DeviceName(containerName, hostPort, containerPort, protocol) ==
    containerName \o <<"-">> \o hostPort \o <<"-">> \o containerPort \o <<"-">> \o protocol

\* fmt.Sprintf("%s:0.0.0.0:%s", protocol, port)
Addr(protocol, port) == protocol \o <<":">> \o ANYIP \o <<":">> \o port

\* mutant: the connect address carries the container port
ConnectAddr_ContainerPort(protocol, hostPort, containerPort) ==
    Addr(protocol, containerPort)

ConnectAddr(protocol, hostPort, containerPort) == Addr(protocol, hostPort)

ListenAddr(protocol, hostPort, containerPort) == Addr(protocol, containerPort)

\* the argument list handed to manager.RunLXCCommand
DeviceAddCommand(containerName, hostPort, containerPort, protocol) ==
    << S_lxc, S_config, S_device, S_add, containerName,
       DeviceName(containerName, hostPort, containerPort, protocol), PROXY,
       S_connectEq \o ConnectAddr(protocol, hostPort, containerPort),
       S_listenEq \o ListenAddr(protocol, hostPort, containerPort) >>

\* mutant: `both` runs the udp leg before the tcp leg
Dispatch_UdpFirst(protocol) ==
    LET p == ToLower(IF protocol = <<>> THEN TCP ELSE protocol)
    IN  IF p = TCP THEN <<TCP>>
        ELSE IF p = UDP THEN <<UDP>>
        ELSE IF p = BOTH THEN <<UDP, TCP>>
        ELSE <<>>

\* mutant: `both` is run as a single leg of its own
Dispatch_Unexpanded(protocol) ==
    LET p == ToLower(IF protocol = <<>> THEN TCP ELSE protocol)
    IN  IF p = TCP THEN <<TCP>>
        ELSE IF p = UDP THEN <<UDP>>
        ELSE IF p = BOTH THEN <<BOTH>>
        ELSE <<>>

\* mutant: the protocol switch compares the protocol as it was given
Dispatch_CaseSensitive(protocol) ==
    LET p == IF protocol = <<>> THEN TCP ELSE protocol
    IN  IF p = TCP THEN <<TCP>>
        ELSE IF p = UDP THEN <<UDP>>
        ELSE IF p = BOTH THEN <<TCP, UDP>>
        ELSE <<>>

\* the legs the protocol switch of configurePortForwarding runs, in order
Dispatch(protocol) ==
    LET p == ToLower(IF protocol = <<>> THEN TCP ELSE protocol)
    IN  IF p = TCP THEN <<TCP>>
        ELSE IF p = UDP THEN <<UDP>>
        ELSE IF p = BOTH THEN <<TCP, UDP>>
        ELSE <<>>

\* mutant: the availability check runs whatever the force flag
LegEntry_AlwaysProbe(force) == "probe"

\* where a leg starts: `if !force` guards the availability check
LegEntry(force) == IF force THEN "create" ELSE "probe"

\* mutant: the answer of the existence oracle is not looked at
existsOutcome_IgnoresAnswer(r, found) ==
    IF Dispatch(r.protocol) = <<>>
    THEN [result |-> Err("unsupported protocol: %s", <<ToLower(r.protocol)>>),
          legs |-> <<>>, pc |-> "done"]
    ELSE [result |-> Nil, legs |-> Dispatch(r.protocol), pc |-> LegEntry(r.force)]

\* configurePortForwarding after validation: existence check, protocol
\* normalisation and dispatch
existsOutcome(r, found) ==
    IF ~found
    THEN [result |-> Err("container '%s' does not exist", <<r.containerName>>),
          legs |-> <<>>, pc |-> "done"]
    ELSE IF Dispatch(r.protocol) = <<>>
    THEN [result |-> Err("unsupported protocol: %s", <<ToLower(r.protocol)>>),
          legs |-> <<>>, pc |-> "done"]
    ELSE [result |-> Nil, legs |-> Dispatch(r.protocol), pc |-> LegEntry(r.force)]

\* mutant: a port found in use is probed again
probeOutcome_Retries(r, protocol, sockets) ==
    LET hostPortNum == Atoi(r.hostPort)
        available   == IsPortAvailable(hostPortNum.n, protocol, sockets)
    IN  IF ~hostPortNum.ok
        THEN [probed |-> FALSE, port |-> 0, available |-> FALSE,
              result |-> Err("invalid host port '%s': %w", <<r.hostPort>>),
              pc |-> "done"]
        ELSE IF ~available
        THEN [probed |-> TRUE, port |-> hostPortNum.n, available |-> FALSE,
              result |-> Nil, pc |-> "probe"]
        ELSE [probed |-> TRUE, port |-> hostPortNum.n, available |-> TRUE,
              result |-> Nil, pc |-> "create"]

\* configurePortForwardingForProtocol, `if !force { ... }`
probeOutcome(r, protocol, sockets) ==
    LET hostPortNum == Atoi(r.hostPort)
        available   == IsPortAvailable(hostPortNum.n, protocol, sockets)
    IN  IF ~hostPortNum.ok
        THEN [probed |-> FALSE, port |-> 0, available |-> FALSE,
              result |-> Err("invalid host port '%s': %w", <<r.hostPort>>),
              pc |-> "done"]
        ELSE IF ~available
        THEN [probed |-> TRUE, port |-> hostPortNum.n, available |-> FALSE,
              result |-> FormatPortConflictError(r.hostPort, protocol),
              pc |-> "done"]
        ELSE [probed |-> TRUE, port |-> hostPortNum.n, available |-> TRUE,
              result |-> Nil, pc |-> "create"]

\* mutant: the error of the tcp leg is dropped and the udp leg runs anyway
createOutcome_ContinuesAfterFailure(r, remaining, ok) ==
    LET protocol == Head(remaining)
        cmd == [args |-> DeviceAddCommand(r.containerName, r.hostPort,
                                          r.containerPort, protocol),
                protocol |-> protocol, ok |-> ok]
    IN  IF Tail(remaining) = <<>>
        THEN [cmds |-> <<cmd>>,
              result |-> IF ok THEN Nil
                         ELSE Err("failed to configure %s port forwarding %s:%s -> %s:%s: %w",
                                  <<protocol, ANYIP, r.hostPort, r.containerName,
                                    r.containerPort>>),
              legs |-> IF ok THEN <<>> ELSE remaining, pc |-> "done"]
        ELSE [cmds |-> <<cmd>>, result |-> Nil, legs |-> Tail(remaining),
              pc |-> LegEntry(r.force)]

\* mutant: a failed udp leg of `both` removes the tcp device again
createOutcome_RollsBack(r, remaining, ok) ==
    LET protocol == Head(remaining)
        cmd == [args |-> DeviceAddCommand(r.containerName, r.hostPort,
                                          r.containerPort, protocol),
                protocol |-> protocol, ok |-> ok]
        undo == [args |-> << S_lxc, S_config, S_device,
                             <<"r", "e", "m", "o", "v", "e">>, r.containerName,
                             DeviceName(r.containerName, r.hostPort,
                                        r.containerPort, TCP) >>,
                 protocol |-> TCP, ok |-> TRUE]
    IN  IF ~ok
        THEN [cmds |-> IF protocol = UDP /\ Dispatch(r.protocol) = <<TCP, UDP>>
                       THEN <<cmd, undo>> ELSE <<cmd>>,
              result |-> Err("failed to configure %s port forwarding %s:%s -> %s:%s: %w",
                             <<protocol, ANYIP, r.hostPort, r.containerName,
                               r.containerPort>>),
              legs |-> remaining, pc |-> "done"]
        ELSE IF Tail(remaining) = <<>>
        THEN [cmds |-> <<cmd>>, result |-> Nil, legs |-> <<>>, pc |-> "done"]
        ELSE [cmds |-> <<cmd>>, result |-> Nil, legs |-> Tail(remaining),
              pc |-> LegEntry(r.force)]

\* mutant: the error of a failed command names the requested protocol, not the leg
createOutcome_ErrorNamesRequest(r, remaining, ok) ==
    LET protocol == Head(remaining)
        cmd == [args |-> DeviceAddCommand(r.containerName, r.hostPort,
                                          r.containerPort, protocol),
                protocol |-> protocol, ok |-> ok]
    IN  IF ~ok
        THEN [cmds |-> <<cmd>>,
              result |-> Err("failed to configure %s port forwarding %s:%s -> %s:%s: %w",
                             <<ToLower(r.protocol), ANYIP, r.hostPort, r.containerName,
                               r.containerPort>>),
              legs |-> remaining, pc |-> "done"]
        ELSE IF Tail(remaining) = <<>>
        THEN [cmds |-> <<cmd>>, result |-> Nil, legs |-> <<>>, pc |-> "done"]
        ELSE [cmds |-> <<cmd>>, result |-> Nil, legs |-> Tail(remaining),
              pc |-> LegEntry(r.force)]

\* configurePortForwardingForProtocol from the device name on, and the return
\* into the protocol switch: cmds are the commands handed to RunLXCCommand,
\* each with the leg that issued it and the executor's verdict
createOutcome(r, remaining, ok) ==
    LET protocol == Head(remaining)
        cmd == [args |-> DeviceAddCommand(r.containerName, r.hostPort,
                                          r.containerPort, protocol),
                protocol |-> protocol, ok |-> ok]
    IN  IF ~ok
        THEN [cmds |-> <<cmd>>,
              result |-> Err("failed to configure %s port forwarding %s:%s -> %s:%s: %w",
                             <<protocol, ANYIP, r.hostPort, r.containerName,
                               r.containerPort>>),
              legs |-> remaining, pc |-> "done"]
        ELSE IF Tail(remaining) = <<>>
        THEN [cmds |-> <<cmd>>, result |-> Nil, legs |-> <<>>, pc |-> "done"]
        ELSE [cmds |-> <<cmd>>, result |-> Nil, legs |-> Tail(remaining),
              pc |-> LegEntry(r.force)]

\* what the container runtime records for a device command that succeeded
ApplyCommand(devs, cmd) ==
    LET a == cmd.args
    IN  IF ~cmd.ok \/ Len(a) < 6 \/ SubSeq(a, 1, 3) # <<S_lxc, S_config, S_device>>
        THEN devs
        ELSE IF a[4] = S_add /\ Len(a) = 9
        THEN devs \cup { [container |-> a[5], name |-> a[6], type |-> a[7],
                          connect |-> SubSeq(a[8], Len(S_connectEq) + 1, Len(a[8])),
                          listen  |-> SubSeq(a[9], Len(S_listenEq) + 1, Len(a[9]))] }
        ELSE IF a[4] = <<"r", "e", "m", "o", "v", "e">>
        THEN { d \in devs : ~(d.container = a[5] /\ d.name = a[6]) }
        ELSE devs

RECURSIVE ApplyCommands(_, _)
ApplyCommands(devs, cmds) ==
    IF cmds = <<>> THEN devs
    ELSE ApplyCommands(ApplyCommand(devs, Head(cmds)), Tail(cmds))

\* one entry of the log of external calls
Call(op, name, port, protocol, args, ret) ==
    [op |-> op, name |-> name, port |-> port, protocol |-> protocol,
     args |-> args, ret |-> ret]

\* mutant: the fields are counted from the front, after a one-token name
parsePortMapping_FromFront(deviceName, device) ==
    LET parts        == Split(deviceName, "-")
        n            == Len(parts)
        connectParts == Split(device.connect, ":")
        listenParts  == Split(device.listen, ":")
    IN  IF n < 4
        THEN [err |-> Err("invalid device name format: %s", <<deviceName>>),
              DeviceName |-> <<>>, Protocol |-> <<>>, HostPort |-> <<>>,
              ContainerPort |-> <<>>, HostIP |-> <<>>, ContainerIP |-> <<>>]
        ELSE [err |-> Nil,
              DeviceName    |-> deviceName,
              Protocol      |-> ToUpper(parts[4]),
              HostPort      |-> parts[2],
              ContainerPort |-> parts[3],
              HostIP        |-> IF device.connect # <<>> /\ Len(connectParts) = 3
                                THEN connectParts[2] ELSE ANYIP,
              ContainerIP   |-> IF device.listen # <<>> /\ Len(listenParts) = 3
                                THEN listenParts[2] ELSE ANYIP]

\* mutant: three tokens are enough for parsePortMapping
parsePortMapping_ThreeTokens(deviceName, device) ==
    LET parts        == Split(deviceName, "-")
        n            == Len(parts)
        connectParts == Split(device.connect, ":")
        listenParts  == Split(device.listen, ":")
    IN  IF n < 3
        THEN [err |-> Err("invalid device name format: %s", <<deviceName>>),
              DeviceName |-> <<>>, Protocol |-> <<>>, HostPort |-> <<>>,
              ContainerPort |-> <<>>, HostIP |-> <<>>, ContainerIP |-> <<>>]
        ELSE [err |-> Nil,
              DeviceName    |-> deviceName,
              Protocol      |-> ToUpper(parts[n]),
              HostPort      |-> parts[n - 2],
              ContainerPort |-> parts[n - 1],
              HostIP        |-> IF device.connect # <<>> /\ Len(connectParts) = 3
                                THEN connectParts[2] ELSE ANYIP,
              ContainerIP   |-> IF device.listen # <<>> /\ Len(listenParts) = 3
                                THEN listenParts[2] ELSE ANYIP]

\* parsePortMapping: the last three tokens are host port, container port, protocol
parsePortMapping(deviceName, device) ==
    LET parts        == Split(deviceName, "-")
        n            == Len(parts)
        connectParts == Split(device.connect, ":")
        listenParts  == Split(device.listen, ":")
    IN  IF n < 4
        THEN [err |-> Err("invalid device name format: %s", <<deviceName>>),
              DeviceName |-> <<>>, Protocol |-> <<>>, HostPort |-> <<>>,
              ContainerPort |-> <<>>, HostIP |-> <<>>, ContainerIP |-> <<>>]
        ELSE [err |-> Nil,
              DeviceName    |-> deviceName,
              Protocol      |-> ToUpper(parts[n]),
              HostPort      |-> parts[n - 2],
              ContainerPort |-> parts[n - 1],
              HostIP        |-> IF device.connect # <<>> /\ Len(connectParts) = 3
                                THEN connectParts[2] ELSE ANYIP,
              ContainerIP   |-> IF device.listen # <<>> /\ Len(listenParts) = 3
                                THEN listenParts[2] ELSE ANYIP]

----------------------------------------------------------------------------
(* cmd/root.go (port list) *)

\* regexp.QuoteMeta: a backslash before every metacharacter
MetaChars == { "\\", ".", "+", "*", "?", "(", ")", "|", "[", "]", "{", "}", "^", "$" }

RECURSIVE QuoteMeta(_)
QuoteMeta(s) ==
    IF s = <<>> THEN <<>>
    ELSE (IF Head(s) \in MetaChars THEN <<"\\", Head(s)>> ELSE <<Head(s)>>)
         \o QuoteMeta(Tail(s))

\* the container-name part of the pattern as the regexp compiler reads it:
\* an escaped character is that character, a bare dot is any character, any
\* other character is itself (the names drawn hold no other metacharacter)
RECURSIVE CompileLiteral(_)
CompileLiteral(p) ==
    IF p = <<>> THEN <<>>
    ELSE IF Head(p) = "\\" /\ Len(p) >= 2
    THEN << [any |-> FALSE, c |-> p[2]] >> \o CompileLiteral(SubSeq(p, 3, Len(p)))
    ELSE IF Head(p) = "."
    THEN << [any |-> TRUE, c |-> "."] >> \o CompileLiteral(Tail(p))
    ELSE << [any |-> FALSE, c |-> Head(p)] >> \o CompileLiteral(Tail(p))

\* length of the run of digits of t that starts at position i (\d+ is greedy)
RECURSIVE DigitRun(_, _)
DigitRun(t, i) ==
    IF i > Len(t) \/ ~IsDigit(t[i]) THEN 0 ELSE 1 + DigitRun(t, i + 1)

\* the fixed tail of the pattern: -\d+-\d+-(tcp|udp)$
MatchTail(t) ==
    LET n1 == DigitRun(t, 2)
        n2 == DigitRun(t, 3 + n1)
    IN  /\ Len(t) >= 1 /\ t[1] = "-"
        /\ n1 >= 1
        /\ Len(t) >= 2 + n1 /\ t[2 + n1] = "-"
        /\ n2 >= 1
        /\ Len(t) >= 3 + n1 + n2 /\ t[3 + n1 + n2] = "-"
        /\ SubSeq(t, 4 + n1 + n2, Len(t)) \in {TCP, UDP}

\* regexp.MatchString("^" + namePattern + `-\d+-\d+-(tcp|udp)$`, text)
MatchString(namePattern, text) ==
    LET items == CompileLiteral(namePattern)
    IN  /\ Len(text) >= Len(items)
        /\ \A i \in 1..Len(items) : items[i].any \/ items[i].c = text[i]
        /\ MatchTail(SubSeq(text, Len(items) + 1, Len(text)))

\* mutant: the container name goes into the pattern unquoted
isPortDevice_Unquoted(deviceName, containerName) ==
    MatchString(containerName, deviceName)

isPortDevice(deviceName, containerName) ==
    MatchString(QuoteMeta(containerName), deviceName)

\* the orders in which `range config.Devices` can visit the devices
IterationOrders(devs) ==
    { o \in [1..Cardinality(devs) -> devs] :
        \A i, j \in 1..Cardinality(devs) : o[i] = o[j] => i = j }

\* mutant: the device type is not looked at
parsePortMappingsFromConfig_AnyType(doc, containerName, order) ==
    IF ~doc.valid
    THEN [err |-> Err("failed to parse container configuration: %w", <<>>),
          mappings |-> <<>>]
    ELSE LET keep(d) == /\ isPortDevice(d.name, containerName)
                        /\ parsePortMapping(d.name, d).err = Nil
             kept == SelectSeq(order, keep)
         IN  [err |-> Nil,
              mappings |-> [i \in 1..Len(kept) |-> parsePortMapping(kept[i].name, kept[i])]]

\* parsePortMappingsFromConfig: doc is the YAML document (valid or not, and
\* the devices it holds), order the order in which the device map is ranged
parsePortMappingsFromConfig(doc, containerName, order) ==
    IF ~doc.valid
    THEN [err |-> Err("failed to parse container configuration: %w", <<>>),
          mappings |-> <<>>]
    ELSE LET keep(d) == /\ d.type = PROXY
                        /\ isPortDevice(d.name, containerName)
                        /\ parsePortMapping(d.name, d).err = Nil
             kept == SelectSeq(order, keep)
         IN  [err |-> Nil,
              mappings |-> [i \in 1..Len(kept) |-> parsePortMapping(kept[i].name, kept[i])]]

\* fmt's %-Ns: the string, then blanks up to width n
PadRight(s, n) ==
    s \o [i \in 1..(IF Len(s) < n THEN n - Len(s) ELSE 0) |-> " "]

HeaderLine ==
    << "P", "R", "O", "T", "O", "C", "O", "L", " ", " ", "H", "O", "S", "T", " ", "P",
       "O", "R", "T", " ", " ", "C", "O", "N", "T", "A", "I", "N", "E", "R", " ", "P",
       "O", "R", "T", " ", " ", "H", "O", "S", "T", " ", "I", "P", " ", " ", " ", " ",
       " ", " ", "C", "O", "N", "T", "A", "I", "N", "E", "R", " ", "I", "P", " ", " ",
       "D", "E", "V", "I", "C", "E", " ", "N", "A", "M", "E", "\n" >>

SeparatorLine ==
    << "-", "-", "-", "-", "-", "-", "-", "-", " ", " ", "-", "-", "-", "-", "-", "-",
       "-", "-", "-", " ", " ", "-", "-", "-", "-", "-", "-", "-", "-", "-", "-", "-",
       "-", "-", "-", " ", " ", "-", "-", "-", "-", "-", "-", "-", "-", "-", "-", "-",
       " ", " ", "-", "-", "-", "-", "-", "-", "-", "-", "-", "-", "-", "-", " ", " ",
       "-", "-", "-", "-", "-", "-", "-", "-", "-", "-", "-", "\n" >>

\* "%-8s  %-9s  %-14s  %-11s  %-12s  %s\n"
FormatRow(m) ==
    PadRight(m.Protocol, 8) \o <<" ", " ">> \o PadRight(m.HostPort, 9) \o <<" ", " ">>
    \o PadRight(m.ContainerPort, 14) \o <<" ", " ">> \o PadRight(m.HostIP, 11)
    \o <<" ", " ">> \o PadRight(m.ContainerIP, 12) \o <<" ", " ">> \o m.DeviceName
    \o <<"\n">>

RECURSIVE FormatRows(_)
FormatRows(mappings) ==
    IF mappings = <<>> THEN <<>>
    ELSE FormatRow(Head(mappings)) \o FormatRows(Tail(mappings))

\* mutant: the rows are written last mapping first
formatPortMappings_LastFirst(mappings) ==
    IF Len(mappings) = 0 THEN <<>>
    ELSE HeaderLine \o SeparatorLine
         \o FormatRows([i \in 1..Len(mappings) |-> mappings[Len(mappings) + 1 - i]])

formatPortMappings(mappings) ==
    IF Len(mappings) = 0 THEN <<>>
    ELSE HeaderLine \o SeparatorLine \o FormatRows(mappings)

\* the values the flags of `port add` and `port list` can leave in the
\* package variables portTimeout and forcePort
Flags ==
    { [portTimeout |-> DefaultTimeout, forcePort |-> f] : f \in BOOLEAN }

\* prev holds the arguments and the result of the call before the last one
NoProbe ==
    [pc |-> "idle", port |-> 0, protocol |-> <<>>, binds |-> <<>>, ret |-> FALSE,
     prev |-> <<>>]

\* arguments given to helpers.IsPortAvailable
ProbePorts == { -1, 0, 1, 80, 65535, 65536 }

ProbeProtocols ==
    { <<>>, TCP, UDP, BOTH, <<"T", "C", "P">>, <<"U", "d", "p">>,
      <<"h", "t", "t", "p">> }

\* device names given to parsePortMapping
ParseNames ==
    { <<"w", "-", "8", "0", "-", "8", "-", "t", "c", "p">>,
      <<"w", "-", "8", "-", "8", "0", "-", "8", "-", "u", "d", "p">>,
      <<"w", "-", "8", "-", "8", "-", "u", "d", "p", "-", "8", "0", "-", "8", "-", "t", "c", "p">>,
      <<"w", "-", "8", "0", "-", "t", "c", "p">>,
      <<"w">>,
      <<>>,
      <<"a", "-", "b", "-", "c", "-", "d">>,
      <<"w", "-", "-", "8", "-", "T", "C", "P">> }

\* connect and listen values of the devices given to parsePortMapping
ParseAddrs ==
    { <<>>,
      <<"t", "c", "p", ":", "0", ".", "0", ".", "0", ".", "0", ":", "8", "0">>,
      <<"u", "d", "p", ":", "1", "2", "7", ".", "0", ".", "0", ".", "1", ":", "8">>,
      <<"t", "c", "p", ":", "[", ":", ":", "1", "]", ":", "8", "0">>,
      <<"t", "c", "p", ":", "x", ":", "8", "0">>,
      <<"t", "c", "p", ":", "8", "0">> }

NoParse ==
    [pc |-> "idle", deviceName |-> <<>>, connect |-> <<>>, listen |-> <<>>,
     out |-> parsePortMapping(<<>>, [connect |-> <<>>, listen |-> <<>>])]

NoListing ==
    [pc |-> "idle", containerName |-> <<>>, calls |-> <<>>, doc |-> <<>>,
     result |-> Nil, mappings |-> <<>>, stdout |-> <<>>]

\* mutant: the configuration is fetched without asking the existence oracle
listExistsOutcome_IgnoresAnswer(l, found) ==
    [l EXCEPT !.pc = "config",
              !.calls = Append(@, Call("ContainerExists", l.containerName, 0,
                                       <<>>, <<>>, found))]

\* listPortForwarding: the existence check
listExistsOutcome(l, found) ==
    IF ~found
    THEN [l EXCEPT !.pc = "done",
                   !.calls = Append(@, Call("ContainerExists", l.containerName, 0,
                                            <<>>, <<>>, found)),
                   !.result = Err("container '%s' does not exist", <<l.containerName>>)]
    ELSE [l EXCEPT !.pc = "config",
                   !.calls = Append(@, Call("ContainerExists", l.containerName, 0,
                                            <<>>, <<>>, found))]

\* listPortForwarding from GetContainerConfig on: fetched tells whether the
\* fetch succeeded, doc is the document it returned (kept in l.doc)
listConfigOutcome(l, fetched, doc, order) ==
    LET call   == Call("GetContainerConfig", l.containerName, 0, <<>>, <<>>, fetched)
        parsed == parsePortMappingsFromConfig(doc, l.containerName, order)
    IN  IF ~fetched
        THEN [l EXCEPT !.pc = "done", !.calls = Append(@, call),
                       !.result = Err("failed to get container configuration: %w", <<>>)]
        ELSE IF parsed.err # Nil
        THEN [l EXCEPT !.pc = "done", !.calls = Append(@, call), !.doc = <<doc>>,
                       !.result = Err("failed to parse port mappings: %w", <<>>)]
        ELSE IF Len(parsed.mappings) = 0
        THEN [l EXCEPT !.pc = "done", !.calls = Append(@, call), !.doc = <<doc>>,
                       !.stdout = << [fmt |-> "No port forwarding rules found for container '%s'\n",
                                      arg |-> l.containerName] >>]
        ELSE [l EXCEPT !.pc = "done", !.calls = Append(@, call), !.doc = <<doc>>,
                       !.mappings = parsed.mappings,
                       !.stdout = << [fmt |-> "Port mappings for container '%s':\n",
                                      arg |-> l.containerName],
                                     [fmt |-> "%s",
                                      arg |-> formatPortMappings(parsed.mappings)] >>]

\* container names given to `port list`
ListNames ==
    { <<>>, <<"w">>, <<"w", ".">>, <<"w", "-", "8">> }

\* devices a listed configuration is drawn from
DevicePool ==
    { [name |-> <<"w", "-", "8", "0", "-", "8", "-", "t", "c", "p">>,
       type |-> <<"p", "r", "o", "x", "y">>,
       connect |-> <<"t", "c", "p", ":", "0", ".", "0", ".", "0", ".", "0", ":", "8", "0">>,
       listen |-> <<"t", "c", "p", ":", "0", ".", "0", ".", "0", ".", "0", ":", "8">>],
      [name |-> <<"w", "-", "8", "0", "-", "8", "-", "u", "d", "p">>,
       type |-> <<"p", "r", "o", "x", "y">>,
       connect |-> <<"u", "d", "p", ":", "1", "2", "7", ".", "0", ".", "0", ".", "1", ":", "8", "0">>,
       listen |-> <<"u", "d", "p", ":", "0", ".", "0", ".", "0", ".", "0", ":", "8">>],
      [name |-> <<"w", "-", "8", "0", "-", "8", "-", "t", "c", "p">>,
       type |-> <<"d", "i", "s", "k">>,
       connect |-> <<>>,
       listen |-> <<>>],
      [name |-> <<"w", "x", "-", "8", "0", "-", "8", "-", "t", "c", "p">>,
       type |-> <<"p", "r", "o", "x", "y">>,
       connect |-> <<"t", "c", "p", ":", "0", ".", "0", ".", "0", ".", "0", ":", "8", "0">>,
       listen |-> <<"t", "c", "p", ":", "0", ".", "0", ".", "0", ".", "0", ":", "8">>],
      [name |-> <<"w", ".", "-", "8", "0", "-", "8", "-", "t", "c", "p">>,
       type |-> <<"p", "r", "o", "x", "y">>,
       connect |-> <<"t", "c", "p", ":", "0", ".", "0", ".", "0", ".", "0", ":", "8", "0">>,
       listen |-> <<"t", "c", "p", ":", "0", ".", "0", ".", "0", ".", "0", ":", "8">>],
      [name |-> <<"w", "-", "8", "-", "8", "0", "-", "8", "-", "t", "c", "p">>,
       type |-> <<"p", "r", "o", "x", "y">>,
       connect |-> <<"t", "c", "p", ":", "0", ".", "0", ".", "0", ".", "0", ":", "8", "0">>,
       listen |-> <<"t", "c", "p", ":", "0", ".", "0", ".", "0", ".", "0", ":", "8">>],
      [name |-> <<"w", "-", "8", "0", "-", "8", "-", "h", "t", "t", "p">>,
       type |-> <<"p", "r", "o", "x", "y">>,
       connect |-> <<"t", "c", "p", ":", "0", ".", "0", ".", "0", ".", "0", ":", "8", "0">>,
       listen |-> <<"t", "c", "p", ":", "0", ".", "0", ".", "0", ".", "0", ":", "8">>],
      [name |-> <<"w", "-", "x", "-", "8", "-", "t", "c", "p">>,
       type |-> <<"p", "r", "o", "x", "y">>,
       connect |-> <<"t", "c", "p", ":", "0", ".", "0", ".", "0", ".", "0", ":", "8", "0">>,
       listen |-> <<"t", "c", "p", ":", "0", ".", "0", ".", "0", ".", "0", ":", "8">>],
      [name |-> <<"w", "-", "8", "0", "-", "t", "c", "p">>,
       type |-> <<"p", "r", "o", "x", "y">>,
       connect |-> <<"t", "c", "p", ":", "0", ".", "0", ".", "0", ".", "0", ":", "8", "0">>,
       listen |-> <<"t", "c", "p", ":", "0", ".", "0", ".", "0", ".", "0", ":", "8">>],
      [name |-> <<"r", "o", "o", "t">>,
       type |-> <<"d", "i", "s", "k">>,
       connect |-> <<>>,
       listen |-> <<>>] }

\* the configurations drawn: up to MaxDevices devices with distinct names
Configurations ==
    { c \in SUBSET DevicePool :
        /\ Cardinality(c) <= MaxDevices
        /\ \A d, e \in c : d.name = e.name => d = e }

----------------------------------------------------------------------------
(* cmd/create.go *)

S_ubuntu == <<"u", "b", "u", "n", "t", "u">>

S_release == <<"2", "4", ".", "0", "4">>

S_amd64 == <<"a", "m", "d", "6", "4">>

DefaultImage == S_ubuntu \o <<":">> \o S_release

DefaultSize == <<"1", "0", "G">>

\* helpers.ParseImageString
ParseImageString(image) ==
    LET parts == Split(image, ":")
    IN  [distro  |-> IF Len(parts) > 0 /\ parts[1] # <<>> THEN parts[1] ELSE S_ubuntu,
         release |-> IF Len(parts) > 1 /\ parts[2] # <<>> THEN parts[2] ELSE S_release,
         arch    |-> IF Len(parts) > 2 /\ parts[3] # <<>> THEN parts[3] ELSE S_amd64]

\* the manager calls of createContainer, in the order of the code
StepOps ==
    << "GetOrCreateBtrfsPool", "ContainerExists", "CreateContainer",
       "ConfigureContainerSecurity", "RunInContainer apt-get update",
       "InstallDockerInContainer", "RunInContainer useradd", "SetUserPassword",
       "RunInContainer usermod", "StoreContainerPassword", "RestartContainer" >>

\* the error createContainer returns when the step fails
StepErrors ==
    << "failed to get or create Btrfs storage pool: %w",
       "container '%s' already exists",
       "failed to create container: %w",
       "failed to configure container security: %w",
       "failed to update package index: %w",
       "failed to install Docker: %w",
       "failed to create 'app' user: %w",
       "failed to set password for 'app' user: %w",
       "failed to add 'app' user to docker and sudo groups: %w",
       "",
       "failed to restart container: %w" >>

\* the arguments createContainer gives the step
StepArgs(c, i) ==
    IF StepOps[i] = "GetOrCreateBtrfsPool" THEN <<>>
    ELSE IF StepOps[i] = "CreateContainer"
    THEN << c.name, ParseImageString(c.image).distro, ParseImageString(c.image).release,
            ParseImageString(c.image).arch, c.storagePool >>
    ELSE IF StepOps[i] \in {"SetUserPassword", "StoreContainerPassword"}
    THEN << c.name, c.password >>
    ELSE << c.name >>

NoCreate ==
    [pc |-> "idle", name |-> <<>>, image |-> <<>>, size |-> <<>>, next |-> 0,
     storagePool |-> "", password |-> "", calls |-> <<>>, result |-> Nil]

\* mutant: a password that cannot be stored fails the call
createStepOutcome_StoreFatal(c, answer) ==
    LET i    == c.next
        call == [op |-> StepOps[i], args |-> StepArgs(c, i), ret |-> answer]
    IN  IF StepOps[i] = "ContainerExists"
        THEN IF answer
             THEN [c EXCEPT !.calls = Append(@, call), !.pc = "done",
                            !.result = Err(StepErrors[i], <<c.name>>)]
             ELSE [c EXCEPT !.calls = Append(@, call), !.next = i + 1]
        ELSE IF ~answer
        THEN [c EXCEPT !.calls = Append(@, call), !.pc = "done",
                       !.result = Err(StepErrors[i], <<>>)]
        ELSE IF i = Len(StepOps)
        THEN [c EXCEPT !.calls = Append(@, call), !.pc = "done"]
        ELSE [c EXCEPT !.calls = Append(@, call), !.next = i + 1]

\* one manager call of createContainer and what the code does with its
\* answer: answer is the boolean of ContainerExists, and for every other call
\* whether it returned no error
createStepOutcome(c, answer) ==
    LET i    == c.next
        call == [op |-> StepOps[i], args |-> StepArgs(c, i), ret |-> answer]
    IN  IF StepOps[i] = "ContainerExists"
        THEN IF answer
             THEN [c EXCEPT !.calls = Append(@, call), !.pc = "done",
                            !.result = Err(StepErrors[i], <<c.name>>)]
             ELSE [c EXCEPT !.calls = Append(@, call), !.next = i + 1]
        ELSE IF StepOps[i] = "StoreContainerPassword"
        THEN [c EXCEPT !.calls = Append(@, call), !.next = i + 1]
        ELSE IF ~answer
        THEN [c EXCEPT !.calls = Append(@, call), !.pc = "done",
                       !.result = Err(StepErrors[i], <<>>)]
        ELSE IF i = Len(StepOps)
        THEN [c EXCEPT !.calls = Append(@, call), !.pc = "done"]
        ELSE [c EXCEPT !.calls = Append(@, call), !.next = i + 1]

\* arguments of createContainer
CreateNames == { <<>>, <<"c">> }

CreateImages == { <<>>, <<"d">>, <<"d", ":", "r">>, <<":", "r", ":", "a">> }

CreateSizes == { <<>>, <<"2", "G">> }

\* storage pools GetOrCreateBtrfsPool can return
Pools == { "default", "docker-pool" }

\* passwords helpers.GenerateSecurePassword can return
Passwords == { "p1", "p2" }

----------------------------------------------------------------------------
(* cmd/gpu.go and helpers/gpu.go *)

\* validateGPUArgs
validateGPUArgs(containerName, action) ==
    IF containerName = "" THEN Err("container name is required", <<>>)
    ELSE IF action = "" THEN Err("action is required", <<>>)
    ELSE IF action \in {"enable", "disable", "status"} THEN Nil
    ELSE Err("invalid action '%s': must be 'enable', 'disable', or 'status'", <<action>>)

\* parseGPUStatus on the container's configuration: devtype is the type of
\* the device named gpu ("" when there is none), privileged the value of
\* security.privileged ("" when unset)
parseGPUStatus(config) ==
    [HasGPUDevice   |-> config.devtype = "gpu",
     PrivilegedMode |-> config.privileged = "true"]

\* GPUStatus.IsEnabled
IsEnabled(status) == status.HasGPUDevice /\ status.PrivilegedMode

\* mutant: both configuration commands are issued whatever the status
gpuPlan_Unconditional(action, status) ==
    IF action = "enable"
    THEN << "device add gpu", "set security.privileged true" >>
    ELSE << "device remove gpu", "set security.privileged false" >>

\* the lxc config commands EnableContainerGPU and DisableContainerGPU issue
\* for the status they have read, in order
gpuPlan(action, status) ==
    IF action = "enable"
    THEN IF IsEnabled(status) THEN <<>>
         ELSE (IF ~status.HasGPUDevice THEN << "device add gpu" >> ELSE <<>>)
              \o (IF ~status.PrivilegedMode THEN << "set security.privileged true" >>
                  ELSE <<>>)
    ELSE IF ~status.HasGPUDevice /\ ~status.PrivilegedMode THEN <<>>
         ELSE (IF status.HasGPUDevice THEN << "device remove gpu" >> ELSE <<>>)
              \o (IF status.PrivilegedMode THEN << "set security.privileged false" >>
                  ELSE <<>>)

\* what the container's configuration is after a command that succeeded
gpuApply(config, cmd) ==
    IF cmd = "device add gpu" THEN [config EXCEPT !.devtype = "gpu"]
    ELSE IF cmd = "device remove gpu" THEN [config EXCEPT !.devtype = ""]
    ELSE IF cmd = "set security.privileged true" THEN [config EXCEPT !.privileged = "true"]
    ELSE IF cmd = "set security.privileged false" THEN [config EXCEPT !.privileged = "false"]
    ELSE config

ManagerOp(action) == IF action = "enable" THEN "EnableGPU" ELSE "DisableGPU"

\* mutant: the container is restarted whether or not the operation succeeded
gpuOperationDone_RestartsAnyway(g, ok) ==
    [g EXCEPT !.calls = Append(@, [op |-> ManagerOp(g.action), ret |-> ok]),
              !.pc = "restart"]

\* handleGPUEnable / handleGPUDisable once manager.EnableGPU or
\* manager.DisableGPU has returned
gpuOperationDone(g, ok) ==
    IF ok
    THEN [g EXCEPT !.calls = Append(@, [op |-> ManagerOp(g.action), ret |-> TRUE]),
                   !.pc = "restart"]
    ELSE [g EXCEPT !.calls = Append(@, [op |-> ManagerOp(g.action), ret |-> FALSE]),
                   !.pc = "done",
                   !.result = Err(IF g.action = "enable" THEN "failed to enable GPU: %w"
                                  ELSE "failed to disable GPU: %w", <<>>)]

\* config is the container's GPU configuration, before what it was when the
\* invocation started, last the action of the invocation before this one and
\* whether its operation succeeded
NoGpu ==
    [pc |-> "idle", containerName |-> "", action |-> "", calls |-> <<>>,
     status |-> <<>>, pending |-> <<>>, cmds |-> <<>>, printed |-> <<>>,
     result |-> Nil,
     config |-> [devtype |-> "", privileged |-> ""],
     before |-> [devtype |-> "", privileged |-> ""],
     last |-> <<>>]

GpuConfigs == [devtype : {"", "gpu", "disk"}, privileged : {"", "true", "false", "1"}]

GpuNames == { "", "g" }

GpuActions == { "", "enable", "disable", "status", "start" }

----------------------------------------------------------------------------
(* State machine *)

Init ==
    /\ bound = {}
    /\ devices = {}
    /\ pc = "idle"
    /\ req = NoRequest
    /\ legs = <<>>
    /\ calls = <<>>
    /\ result = Nil
    /\ lst = NoListing
    /\ prb = NoProbe
    /\ flags \in Flags
    /\ prs = NoParse
    /\ crt = NoCreate
    /\ gpu = NoGpu

\* portAddCmd.RunE and the validation that opens configurePortForwarding,
\* for arguments drawn from the given sets
InvokeWith(names, hostPorts, containerPorts, protocols) ==
    /\ pc = "idle"
    /\ \E containerName \in names, hostPort \in hostPorts,
          containerPort \in containerPorts, protocol \in protocols :
         /\ req' = [containerName |-> containerName, hostPort |-> hostPort,
                    containerPort |-> containerPort, protocol |-> protocol,
                    force |-> flags.forcePort]
         /\ LET err == validatePortForwardingArgs(containerName, hostPort,
                                                  containerPort, protocol)
            IN  /\ result' = err
                /\ pc' = IF err # Nil THEN "done" ELSE "exists"
    /\ calls' = <<>>
    /\ legs' = <<>>
    /\ UNCHANGED <<bound, devices, lst, prb, flags, otherCmds>>

Invoke ==
    InvokeWith(ContainerNames, HostPorts, ContainerPorts, Protocols)

\* manager.ContainerExists answers, then the protocol switch is entered
CheckExists ==
    /\ pc = "exists"
    /\ \E found \in BOOLEAN :
         LET out == existsOutcome(req, found)
         IN  /\ calls' = Append(calls, Call("ContainerExists", req.containerName,
                                            0, <<>>, <<>>, found))
             /\ result' = out.result
             /\ legs' = out.legs
             /\ pc' = out.pc
    /\ UNCHANGED <<bound, devices, req, lst, prb, flags, otherCmds>>

\* mutant: the probe's listener is left open, holding the port
Probe_HoldsPort ==
    /\ pc = "probe"
    /\ LET out == probeOutcome(req, Head(legs), bound)
       IN  /\ calls' = IF out.probed
                       THEN Append(calls, Call("IsPortAvailable", <<>>, out.port,
                                               Head(legs), <<>>, out.available))
                       ELSE calls
           /\ result' = out.result
           /\ pc' = out.pc
           /\ bound' = IF out.available THEN bound \cup { <<out.port, Head(legs)>> }
                       ELSE bound
    /\ UNCHANGED <<devices, req, legs, lst, prb, flags, otherCmds>>

\* the availability check of the current leg; the probe's socket is closed
\* again before IsPortAvailable returns, so bound is left as it was
Probe ==
    /\ pc = "probe"
    /\ LET out == probeOutcome(req, Head(legs), bound)
       IN  /\ calls' = IF out.probed
                       THEN Append(calls, Call("IsPortAvailable", <<>>, out.port,
                                               Head(legs), <<>>, out.available))
                       ELSE calls
           /\ result' = out.result
           /\ pc' = out.pc
    /\ UNCHANGED <<bound, devices, req, legs, lst, prb, flags, otherCmds>>

\* the device creation of the current leg: the command executor succeeds or
\* fails, and the runtime records the device of a command that succeeded
Create ==
    /\ pc = "create"
    /\ \E ok \in BOOLEAN :
         LET out == createOutcome(req, legs, ok)
         IN  /\ calls' = calls \o [i \in 1..Len(out.cmds) |->
                              Call("RunLXCCommand", <<>>, 0, out.cmds[i].protocol,
                                   out.cmds[i].args, out.cmds[i].ok)]
             /\ devices' = ApplyCommands(devices, out.cmds)
             /\ result' = out.result
             /\ legs' = out.legs
             /\ pc' = out.pc
    /\ UNCHANGED <<bound, req, lst, prb, flags, otherCmds>>

\* another process binds or releases a socket on the host
OtherBind ==
    /\ \E s \in OtherSockets \ bound : bound' = bound \cup {s}
    /\ UNCHANGED <<devices, pc, req, legs, calls, result, lst, prb, flags, otherCmds>>

OtherRelease ==
    /\ \E s \in bound : bound' = bound \ {s}
    /\ UNCHANGED <<devices, pc, req, legs, calls, result, lst, prb, flags, otherCmds>>

Next ==
    \/ Invoke
    \/ CheckExists
    \/ Probe
    \/ Create
    \/ OtherBind
    \/ OtherRelease

Spec == Init /\ [][Next]_vars

----------------------------------------------------------------------------
(* State machine of `port list` *)

\* the devices of a container's configuration, as GetContainerConfig returns them
ConfigOf(containerName) ==
    { [name |-> d.name, type |-> d.type, connect |-> d.connect, listen |-> d.listen] :
        d \in { e \in devices : e.container = containerName } }

InitList ==
    /\ bound = {}
    /\ \E owner \in ListNames \ { <<>> }, c \in Configurations :
         devices = { [container |-> owner, name |-> d.name, type |-> d.type,
                      connect |-> d.connect, listen |-> d.listen] : d \in c }
    /\ pc = "idle"
    /\ req = NoRequest
    /\ legs = <<>>
    /\ calls = <<>>
    /\ result = Nil
    /\ lst = NoListing
    /\ prb = NoProbe
    /\ flags \in Flags
    /\ prs = NoParse
    /\ crt = NoCreate
    /\ gpu = NoGpu

\* portListCmd.RunE and the name check that opens listPortForwarding, for a
\* name drawn from the given set
ListInvokeWith(names) ==
    /\ lst.pc = "idle"
    /\ \E containerName \in names :
         lst' = IF containerName = <<>>
                THEN [lst EXCEPT !.pc = "done",
                                 !.result = Err("container name is required", <<>>)]
                ELSE [lst EXCEPT !.pc = "exists", !.containerName = containerName]
    /\ UNCHANGED <<bound, devices, addVars, prb, flags, otherCmds>>

ListInvoke ==
    ListInvokeWith(ListNames)

\* manager.ContainerExists answers
ListCheckExists ==
    /\ lst.pc = "exists"
    /\ \E found \in BOOLEAN : lst' = listExistsOutcome(lst, found)
    /\ UNCHANGED <<bound, devices, addVars, prb, flags, otherCmds>>

\* manager.GetContainerConfig fails or returns a document, which does not
\* parse or holds the container's devices; the mappings are parsed from it in
\* one of the orders the device map can be ranged in, and printed
ListConfig ==
    /\ lst.pc = "config"
    /\ \E fetched \in BOOLEAN, valid \in BOOLEAN,
          order \in IterationOrders(ConfigOf(lst.containerName)) :
         lst' = listConfigOutcome(lst, fetched,
                                  [valid |-> valid,
                                   devices |-> ConfigOf(lst.containerName)],
                                  order)
    /\ UNCHANGED <<bound, devices, addVars, prb, flags, otherCmds>>

NextList ==
    \/ ListInvoke
    \/ ListCheckExists
    \/ ListConfig

SpecList == InitList /\ [][NextList]_vars

----------------------------------------------------------------------------
(* One `port add` and one `port list`, for different containers, interleaved *)

\* containers `port add` is run for while a listing runs
ConcAddNames ==
    { <<"w">>, <<"w", "-">>, <<"8">> }

\* configurations the containers start with
ConcConfigurations ==
    { c \in Configurations : Cardinality(c) <= 1 }

InitConc ==
    /\ bound = {}
    /\ \E owner \in ListNames \ { <<>> }, c \in ConcConfigurations :
         devices = { [container |-> owner, name |-> d.name, type |-> d.type,
                      connect |-> d.connect, listen |-> d.listen] : d \in c }
    /\ pc = "idle"
    /\ req = NoRequest
    /\ legs = <<>>
    /\ calls = <<>>
    /\ result = Nil
    /\ lst = NoListing
    /\ prb = NoProbe
    /\ flags \in Flags
    /\ prs = NoParse
    /\ crt = NoCreate
    /\ gpu = NoGpu

\* `port add` for a container other than the one being listed
ConcInvoke ==
    InvokeWith(ConcAddNames \ { lst.containerName }, { <<"8", "0">> }, { <<"8">> },
               { TCP, BOTH })

\* `port list` for a container other than the one being added to
ConcListInvoke ==
    ListInvokeWith(ListNames \ { req.containerName })

NextConc ==
    \/ ConcInvoke
    \/ CheckExists
    \/ Probe
    \/ Create
    \/ ConcListInvoke
    \/ ListCheckExists
    \/ ListConfig

SpecConc == InitConc /\ [][NextConc]_vars

----------------------------------------------------------------------------
(* A `port add` followed by a `port list` of the same container *)

\* containers the add and the listing are run for
AddListNames ==
    { <<"w">>, <<"w", "-", "8">> }

InitAddList ==
    /\ bound = {}
    /\ devices = {}
    /\ pc = "idle"
    /\ req = NoRequest
    /\ legs = <<>>
    /\ calls = <<>>
    /\ result = Nil
    /\ lst = NoListing
    /\ prb = NoProbe
    /\ flags \in Flags
    /\ prs = NoParse
    /\ crt = NoCreate
    /\ gpu = NoGpu

AddListInvoke ==
    InvokeWith(AddListNames, HostPorts, ContainerPorts, Protocols)

\* `port list` for the container the add has succeeded for
ListAfterAdd ==
    /\ pc = "done"
    /\ result = Nil
    /\ ListInvokeWith({ req.containerName })

NextAddList ==
    \/ AddListInvoke
    \/ CheckExists
    \/ Probe
    \/ Create
    \/ ListAfterAdd
    \/ ListCheckExists
    \/ ListConfig

SpecAddList == InitAddList /\ [][NextAddList]_vars

----------------------------------------------------------------------------
(* State machine of a call of parsePortMapping *)

InitParse ==
    /\ bound = {}
    /\ devices = {}
    /\ pc = "idle"
    /\ req = NoRequest
    /\ legs = <<>>
    /\ calls = <<>>
    /\ result = Nil
    /\ lst = NoListing
    /\ prb = NoProbe
    /\ flags \in Flags
    /\ prs = NoParse
    /\ crt = NoCreate
    /\ gpu = NoGpu

\* parsePortMapping(deviceName, device)
ParseCall ==
    /\ prs.pc = "idle"
    /\ \E deviceName \in ParseNames, connect \in ParseAddrs, listen \in ParseAddrs :
         prs' = [pc |-> "done", deviceName |-> deviceName, connect |-> connect,
                 listen |-> listen,
                 out |-> parsePortMapping(deviceName, [connect |-> connect,
                                                       listen |-> listen])]
    /\ UNCHANGED <<bound, devices, addVars, lst, prb, flags, crt, gpu>>

NextParse ==
    ParseCall

SpecParse == InitParse /\ [][NextParse]_vars

----------------------------------------------------------------------------
(* State machine of a call of helpers.IsPortAvailable *)

InitProbe ==
    /\ bound \in SUBSET OtherSockets
    /\ devices = {}
    /\ pc = "idle"
    /\ req = NoRequest
    /\ legs = <<>>
    /\ calls = <<>>
    /\ result = Nil
    /\ lst = NoListing
    /\ prb = NoProbe
    /\ flags \in Flags
    /\ prs = NoParse
    /\ crt = NoCreate
    /\ gpu = NoGpu

\* the call that has returned, as the next call remembers it
Previous(p) ==
    IF p.pc = "done"
    THEN << [port |-> p.port, protocol |-> p.protocol, ret |-> p.ret] >>
    ELSE <<>>

\* mutant: the listener of a successful probe is never closed
ProbeCall_LeavesOpen ==
    \E port \in ProbePorts, protocol \in ProbeProtocols :
        /\ prb' = [pc |-> "done", port |-> port, protocol |-> protocol,
                   binds |-> BindAttempts(port, protocol),
                   ret |-> IsPortAvailable(port, protocol, bound),
                   prev |-> Previous(prb)]
        /\ bound' = IF IsPortAvailable(port, protocol, bound)
                    THEN bound \cup { <<port, ToLower(protocol)>> }
                    ELSE bound
        /\ UNCHANGED <<devices, addVars, lst, flags, otherCmds>>

\* helpers.IsPortAvailable(port, protocol), called any number of times: the
\* listener it opens is closed again before it returns
ProbeCall ==
    \E port \in ProbePorts, protocol \in ProbeProtocols :
        /\ prb' = [pc |-> "done", port |-> port, protocol |-> protocol,
                   binds |-> BindAttempts(port, protocol),
                   ret |-> IsPortAvailable(port, protocol, bound),
                   prev |-> Previous(prb)]
        /\ UNCHANGED <<bound, devices, addVars, lst, flags, otherCmds>>

NextProbe ==
    ProbeCall

SpecProbe == InitProbe /\ [][NextProbe]_vars

----------------------------------------------------------------------------
(* State machine of `create` *)

InitCreate ==
    /\ bound = {}
    /\ devices = {}
    /\ pc = "idle"
    /\ req = NoRequest
    /\ legs = <<>>
    /\ calls = <<>>
    /\ result = Nil
    /\ lst = NoListing
    /\ prb = NoProbe
    /\ flags \in Flags
    /\ prs = NoParse
    /\ crt = NoCreate
    /\ gpu = NoGpu

\* createContainer(manager, name, image, size) up to its first manager call
CreateInvoke ==
    /\ crt.pc = "idle"
    /\ \E name \in CreateNames, image \in CreateImages, size \in CreateSizes :
         crt' = IF name = <<>>
                THEN [NoCreate EXCEPT !.pc = "done", !.name = name, !.image = image,
                                      !.size = size,
                                      !.result = Err("container name is required (use --name)",
                                                     <<>>)]
                ELSE [NoCreate EXCEPT !.pc = "step", !.name = name,
                                      !.image = IF image = <<>> THEN DefaultImage ELSE image,
                                      !.size = IF size = <<>> THEN DefaultSize ELSE size,
                                      !.next = 1]
    /\ UNCHANGED <<bound, devices, addVars, lst, prb, flags, prs, gpu>>

\* the next manager call of createContainer; the storage pool is what
\* GetOrCreateBtrfsPool returns, the password is generated right before the
\* useradd call
CreateStep ==
    /\ crt.pc = "step"
    /\ \E answer \in BOOLEAN, storagePool \in Pools, password \in Passwords :
         crt' = createStepOutcome(
                    IF StepOps[crt.next] = "GetOrCreateBtrfsPool" /\ answer
                    THEN [crt EXCEPT !.storagePool = storagePool]
                    ELSE IF StepOps[crt.next] = "RunInContainer useradd"
                    THEN [crt EXCEPT !.password = password]
                    ELSE crt,
                    answer)
    /\ UNCHANGED <<bound, devices, addVars, lst, prb, flags, prs, gpu>>

NextCreate ==
    \/ CreateInvoke
    \/ CreateStep

SpecCreate == InitCreate /\ [][NextCreate]_vars

----------------------------------------------------------------------------
(* State machine of `gpu`: invocations one after another on one container *)

InitGpu ==
    /\ bound = {}
    /\ devices = {}
    /\ pc = "idle"
    /\ req = NoRequest
    /\ legs = <<>>
    /\ calls = <<>>
    /\ result = Nil
    /\ lst = NoListing
    /\ prb = NoProbe
    /\ flags \in Flags
    /\ prs = NoParse
    /\ crt = NoCreate
    /\ gpu \in { [NoGpu EXCEPT !.config = c, !.before = c] : c \in GpuConfigs }

\* whether the invocation's EnableGPU or DisableGPU returned no error
OperationSucceeded(g) ==
    /\ Len(g.calls) >= 2
    /\ g.calls[2].op \in {"EnableGPU", "DisableGPU"}
    /\ g.calls[2].ret

\* handleGPUAction(manager, containerName, action) up to its first manager call
GpuInvoke ==
    /\ gpu.pc \in {"idle", "done"}
    /\ \E containerName \in GpuNames, action \in GpuActions :
         gpu' = [NoGpu EXCEPT
                   !.pc = IF validateGPUArgs(containerName, action) = Nil
                          THEN "exists" ELSE "done",
                   !.containerName = containerName,
                   !.action = action,
                   !.result = validateGPUArgs(containerName, action),
                   !.config = gpu.config,
                   !.before = gpu.config,
                   !.last = IF gpu.pc = "done"
                            THEN << [action |-> gpu.action,
                                     ok |-> OperationSucceeded(gpu)] >>
                            ELSE <<>>]
    /\ UNCHANGED <<bound, devices, addVars, lst, prb, flags, prs, crt>>

\* manager.ContainerExists and the switch on the action
GpuCheckExists ==
    /\ gpu.pc = "exists"
    /\ \E found \in BOOLEAN :
         gpu' = IF ~found
                THEN [gpu EXCEPT !.calls = Append(@, [op |-> "ContainerExists", ret |-> FALSE]),
                                 !.pc = "done",
                                 !.result = Err("container '%s' does not exist",
                                                <<gpu.containerName>>)]
                ELSE [gpu EXCEPT !.calls = Append(@, [op |-> "ContainerExists", ret |-> TRUE]),
                                 !.pc = IF gpu.action = "status" THEN "status"
                                        ELSE "operation"]
    /\ UNCHANGED <<bound, devices, addVars, lst, prb, flags, prs, crt>>

\* EnableContainerGPU / DisableContainerGPU: GetContainerGPUStatus and the
\* choice of the commands to issue
GpuReadStatus ==
    /\ gpu.pc = "operation"
    /\ \E ok \in BOOLEAN :
         gpu' = IF ~ok
                THEN gpuOperationDone(gpu, FALSE)
                ELSE IF gpuPlan(gpu.action, parseGPUStatus(gpu.config)) = <<>>
                THEN gpuOperationDone([gpu EXCEPT !.status = <<parseGPUStatus(gpu.config)>>],
                                      TRUE)
                ELSE [gpu EXCEPT !.status = <<parseGPUStatus(gpu.config)>>,
                                 !.pending = gpuPlan(gpu.action, parseGPUStatus(gpu.config)),
                                 !.pc = "command"]
    /\ UNCHANGED <<bound, devices, addVars, lst, prb, flags, prs, crt>>

\* one lxc config command of EnableContainerGPU / DisableContainerGPU
GpuCommand ==
    /\ gpu.pc = "command"
    /\ \E ok \in BOOLEAN :
         LET cmd  == Head(gpu.pending)
             ran  == [gpu EXCEPT !.cmds = Append(@, [cmd |-> cmd, ret |-> ok]),
                                 !.pending = Tail(@)]
         IN  gpu' = IF ~ok
                    THEN gpuOperationDone([ran EXCEPT !.pending = <<>>], FALSE)
                    ELSE IF Tail(gpu.pending) = <<>>
                    THEN gpuOperationDone([ran EXCEPT !.config = gpuApply(@, cmd)], TRUE)
                    ELSE [ran EXCEPT !.config = gpuApply(@, cmd)]
    /\ UNCHANGED <<bound, devices, addVars, lst, prb, flags, prs, crt>>

\* manager.RestartContainer at the end of handleGPUEnable / handleGPUDisable
GpuRestart ==
    /\ gpu.pc = "restart"
    /\ \E ok \in BOOLEAN :
         gpu' = [gpu EXCEPT
                   !.calls = Append(@, [op |-> "RestartContainer", ret |-> ok]),
                   !.pc = "done",
                   !.result = IF ok THEN Nil
                              ELSE IF gpu.action = "enable"
                              THEN Err("failed to restart container after enabling GPU: %w", <<>>)
                              ELSE Err("failed to restart container after disabling GPU: %w", <<>>)]
    /\ UNCHANGED <<bound, devices, addVars, lst, prb, flags, prs, crt>>

\* handleGPUStatus
GpuStatus ==
    /\ gpu.pc = "status"
    /\ \E ok \in BOOLEAN :
         gpu' = IF ok
                THEN [gpu EXCEPT !.calls = Append(@, [op |-> "GetGPUStatus", ret |-> TRUE]),
                                 !.status = <<parseGPUStatus(gpu.config)>>,
                                 !.printed = <<parseGPUStatus(gpu.config)>>,
                                 !.pc = "done"]
                ELSE [gpu EXCEPT !.calls = Append(@, [op |-> "GetGPUStatus", ret |-> FALSE]),
                                 !.pc = "done",
                                 !.result = Err("failed to get GPU status: %w", <<>>)]
    /\ UNCHANGED <<bound, devices, addVars, lst, prb, flags, prs, crt>>

NextGpu ==
    \/ GpuInvoke
    \/ GpuCheckExists
    \/ GpuReadStatus
    \/ GpuCommand
    \/ GpuRestart
    \/ GpuStatus

SpecGpu == InitGpu /\ [][NextGpu]_vars

----------------------------------------------------------------------------
(* Properties *)

IsCreate(c) == c.op = "RunLXCCommand"

IsProbe(c) == c.op = "IsPortAvailable"

IsExists(c) == c.op = "ContainerExists"

Creates == SelectSeq(calls, IsCreate)

Probes == SelectSeq(calls, IsProbe)

\* the request as the claims describe it
BadPort(s) == s = <<>> \/ ~Atoi(s).ok \/ Atoi(s).n < 1 \/ Atoi(s).n > 65535

Normalized(protocol) == ToLower(IF protocol = <<>> THEN TCP ELSE protocol)

BadProtocol(protocol) == Normalized(protocol) \notin {TCP, UDP, BOTH}

InvalidRequest(r) ==
    \/ r.containerName = <<>>
    \/ BadPort(r.hostPort)
    \/ BadPort(r.containerPort)
    \/ BadProtocol(r.protocol)

NamesOffendingValue(r, e) ==
    \/ e.msg = "container name is required" /\ r.containerName = <<>>
    \/ e.msg = "host port is required" /\ r.hostPort = <<>>
    \/ /\ e.msg \in {"invalid host port '%s': must be a number",
                     "invalid host port '%s': must be between 1 and 65535"}
       /\ e.args = <<r.hostPort>>
       /\ BadPort(r.hostPort)
    \/ e.msg = "container port is required" /\ r.containerPort = <<>>
    \/ /\ e.msg \in {"invalid container port '%s': must be a number",
                     "invalid container port '%s': must be between 1 and 65535"}
       /\ e.args = <<r.containerPort>>
       /\ BadPort(r.containerPort)
    \/ /\ e.msg = "invalid protocol '%s': must be 'tcp', 'udp', or 'both'"
       /\ e.args = <<ToLower(r.protocol)>>
       /\ BadProtocol(r.protocol)

Started == pc # "idle"

Returned == pc = "done"

BothRequest == Started /\ Normalized(req.protocol) = BOTH

ExpectedDeviceName(protocol) ==
    req.containerName \o <<"-">> \o req.hostPort \o <<"-">> \o req.containerPort
        \o <<"-">> \o protocol

HasPrefix(s, prefix) ==
    Len(s) >= Len(prefix) /\ SubSeq(s, 1, Len(prefix)) = prefix

\* C1: a request with an empty container name, a host or container port that
\* is empty, not a number or outside 1..65535, or a protocol that is not
\* tcp/udp/both after lowercasing (empty meaning tcp) returns at once with a
\* validation error naming the offending value, and no external call is made:
\* no existence query, no probe, no creation command.
C1_InvalidRequestNoExternalCall ==
    (Started /\ InvalidRequest(req)) =>
        /\ Returned
        /\ NamesOffendingValue(req, result)
        /\ calls = <<>>
        /\ devices = {}

C1_Witness ==
    /\ Returned
    /\ req.containerName # <<>>
    /\ req.hostPort = <<"6", "5", "5", "3", "6">>
    /\ result.args = <<req.hostPort>>

\* C2: when the existence oracle reports the container of a valid request as
\* absent, the call returns "does not exist" for that container and makes no
\* other external call, whatever the protocol and the force flag.
C2_AbsentContainerNoDeviceOperation ==
    (Len(calls) >= 1 /\ IsExists(calls[1]) /\ ~calls[1].ret) =>
        /\ Returned
        /\ result = Err("container '%s' does not exist", <<req.containerName>>)
        /\ Len(calls) = 1
        /\ devices = {}

C2_Witness ==
    /\ Returned
    /\ Len(calls) = 1 /\ IsExists(calls[1]) /\ ~calls[1].ret
    /\ Normalized(req.protocol) = BOTH
    /\ req.force

\* C3: a `both` request that succeeds has issued exactly two creation
\* commands, the tcp device first and the udp device second, each with the
\* connect and listen address prefixed by the protocol of its own leg.
C3_BothIssuesTcpThenUdp ==
    (BothRequest /\ Returned /\ result = Nil) =>
        /\ Len(Creates) = 2
        /\ Creates[1].args[6] = ExpectedDeviceName(TCP)
        /\ Creates[2].args[6] = ExpectedDeviceName(UDP)
        /\ HasPrefix(Creates[1].args[8], S_connectEq \o TCP \o <<":">>)
        /\ HasPrefix(Creates[1].args[9], S_listenEq \o TCP \o <<":">>)
        /\ HasPrefix(Creates[2].args[8], S_connectEq \o UDP \o <<":">>)
        /\ HasPrefix(Creates[2].args[9], S_listenEq \o UDP \o <<":">>)

C3_Witness ==
    /\ BothRequest /\ Returned /\ result = Nil
    /\ Len(Creates) = 2
    /\ req.containerName = <<"w", "-">>

\* the tcp leg of a both request has failed: its probe found the port taken,
\* or its creation command failed
TcpLegFailed ==
    /\ BothRequest
    /\ \E i \in 1..Len(calls) :
         /\ calls[i].protocol = TCP
         /\ \/ IsProbe(calls[i]) /\ ~calls[i].ret
            \/ IsCreate(calls[i]) /\ ~calls[i].ret

\* C4: when the tcp leg of a `both` request fails (port conflict, or a failing
\* creation command) the call has returned with the error of the tcp leg and
\* nothing is ever done for udp: no udp probe and no udp creation command.
C4_TcpFailureSkipsUdp ==
    TcpLegFailed =>
        /\ Returned
        /\ result # Nil
        /\ result.args[IF result = FormatPortConflictError(req.hostPort, TCP)
                       THEN 2 ELSE 1] = TCP
        /\ \A i \in 1..Len(calls) : calls[i].protocol # UDP

C4_Witness ==
    /\ TcpLegFailed
    /\ Returned
    /\ Len(Creates) = 1
    /\ ~Creates[1].ret

\* the udp leg of a both request has failed after the tcp device was created
UdpLegFailedAfterTcp ==
    /\ BothRequest /\ Returned /\ result # Nil
    /\ Len(Creates) >= 1 /\ Creates[1].protocol = TCP /\ Creates[1].ret

MentionsUdp(e) == \E i \in 1..Len(e.args) : e.args[i] = UDP

\* C5 as stated: after the udp leg failed the error mentions udp and exactly
\* one creation command was issued during the call.
C5_ExactlyOneCommandIssued ==
    UdpLegFailedAfterTcp =>
        /\ MentionsUdp(result)
        /\ Len(Creates) = 1

\* C5, amended: after the udp leg failed the error mentions udp and exactly one
\* creation command, the tcp one, succeeded; the udp creation command was not
\* issued when the leg failed at the probe and was issued once, and failed,
\* otherwise; every command is a `config device add`.
C5_ExactlyOneCommandSucceeded ==
    UdpLegFailedAfterTcp =>
        /\ MentionsUdp(result)
        /\ Cardinality({i \in 1..Len(Creates) : Creates[i].ret}) = 1
        /\ Len(Creates) <= 2
        /\ Len(Creates) = 2 =>
              /\ Creates[2].protocol = UDP
              /\ ~Creates[2].ret
              /\ Probes = <<>> \/ Probes[Len(Probes)].ret
        /\ Len(Creates) = 1 =>
              /\ Probes # <<>>
              /\ Probes[Len(Probes)].protocol = UDP
              /\ ~Probes[Len(Probes)].ret
        /\ \A i \in 1..Len(Creates) :
              SubSeq(Creates[i].args, 1, 4) = <<S_lxc, S_config, S_device, S_add>>

C5_Witness ==
    /\ UdpLegFailedAfterTcp
    /\ Len(Creates) = 2
    /\ ~Creates[2].ret

\* C6: no rollback: when the udp leg of a `both` request failed after the
\* tcp creation command succeeded, the tcp device is in the container's
\* device set when the call returns, and every command the call issues is a
\* `config device add` (no device is ever removed).
C6_NoRollback ==
    /\ UdpLegFailedAfterTcp =>
          \E d \in devices :
              /\ d.container = req.containerName
              /\ d.name = ExpectedDeviceName(TCP)
              /\ d.type = PROXY
    /\ \A i \in 1..Len(Creates) :
          SubSeq(Creates[i].args, 1, 4) = <<S_lxc, S_config, S_device, S_add>>

C6_Witness ==
    /\ UdpLegFailedAfterTcp
    /\ Cardinality(devices) = 1
    /\ Len(Creates) = 2
    /\ req.force

IsConflictFor(e, hostPort, protocol) ==
    /\ e.msg = "host port %s (%s) is already in use ... --force"
    /\ e.args[1] = hostPort
    /\ e.args[2] = protocol

\* C7: the probe gates creation exactly when force is false.  Forced: the
\* prober is never consulted and every leg that is reached issues its creation
\* command, also while the host port is held by a listener.  Not forced: every
\* creation command directly follows a successful probe of the same protocol,
\* and a leg whose probe finds the port unavailable ends the call with the
\* conflict error naming the host port and the leg's protocol, with no
\* creation command for that leg.
C7_ForceGatesProbe ==
    /\ (Started /\ req.force) => Probes = <<>>
    /\ (Returned /\ req.force /\ calls # <<>> /\ calls[1].ret) => Creates # <<>>
    /\ \A i \in 1..Len(calls) :
          (IsCreate(calls[i]) /\ ~req.force) =>
              /\ i > 1
              /\ IsProbe(calls[i - 1])
              /\ calls[i - 1].ret
              /\ calls[i - 1].protocol = calls[i].protocol
    /\ \A i \in 1..Len(calls) :
          (IsProbe(calls[i]) /\ ~calls[i].ret) =>
              /\ ~req.force
              /\ Returned
              /\ i = Len(calls)
              /\ IsConflictFor(result, req.hostPort, calls[i].protocol)
              /\ \A j \in 1..Len(calls) :
                    IsCreate(calls[j]) => calls[j].protocol # calls[i].protocol

C7_Witness ==
    /\ Returned
    /\ req.force
    /\ result = Nil
    /\ Atoi(req.hostPort).n = 80
    /\ bound = {<<80, TCP>>, <<80, UDP>>}
    /\ Len(Creates) = 2

ProtoAddr(protocol, port) ==
    protocol \o <<":", "0", ".", "0", ".", "0", ".", "0", ":">> \o port

C9_CommandConnectContainerListenHost ==
    \A i \in 1..Len(Creates) :
        LET p == Creates[i].protocol
        IN  /\ Creates[i].args[8] = S_connectEq \o ProtoAddr(p, req.containerPort)
            /\ Creates[i].args[9] = S_listenEq \o ProtoAddr(p, req.hostPort)

\* the mapping parsePortMapping decodes from a creation command: its device
\* name and the attributes the command sets
Decoded(c) ==
    parsePortMapping(c.args[6],
                     [type    |-> c.args[7],
                      connect |-> SubSeq(c.args[8], Len(S_connectEq) + 1, Len(c.args[8])),
                      listen  |-> SubSeq(c.args[9], Len(S_listenEq) + 1, Len(c.args[9]))])

\* C10 as stated: decoding the encoded device name recovers host port,
\* container port and protocol exactly, whatever the container name.
C10_RoundTripExact ==
    \A i \in 1..Len(Creates) :
        LET m == Decoded(Creates[i])
        IN  /\ m.err = Nil
            /\ m.HostPort = req.hostPort
            /\ m.ContainerPort = req.containerPort
            /\ m.Protocol = Creates[i].protocol

\* C10, amended: decoding the encoded device name recovers host port and
\* container port exactly and the protocol in upper case (TCP for tcp, UDP
\* for udp), whatever the container name.
C10_RoundTripUpperProtocol ==
    \A i \in 1..Len(Creates) :
        LET m == Decoded(Creates[i])
        IN  /\ m.err = Nil
            /\ m.HostPort = req.hostPort
            /\ m.ContainerPort = req.containerPort
            /\ m.Protocol = (IF Creates[i].protocol = TCP THEN <<"T", "C", "P">>
                                                          ELSE <<"U", "D", "P">>)

C10_Witness ==
    /\ Len(Creates) = 2
    /\ req.containerName = <<"w", "-", "8", "-", "8", "-", "u", "d", "p">>
    /\ req.hostPort = <<"+", "8", "0">>
    /\ Decoded(Creates[1]).HostPort = req.hostPort
    /\ Decoded(Creates[1]).Protocol = <<"T", "C", "P">>

----------------------------------------------------------------------------
(* Properties of `port list` *)

ListReturned == lst.pc = "done"

\* the listing has fetched and parsed the configuration and returned no error
ListSucceeded == ListReturned /\ lst.result = Nil /\ lst.doc # <<>>

\* the devices of the listed container's configuration
Listed == ConfigOf(lst.containerName)

MappingNames == { lst.mappings[i].DeviceName : i \in 1..Len(lst.mappings) }

AllDigits(s) == s # <<>> /\ \A i \in 1..Len(s) : IsDigit(s[i])

\* the name is the container name, then -<digits>-<digits>-tcp or -udp
OwnPortName(deviceName, containerName) ==
    \E i, j \in 1..Len(deviceName), protocol \in {TCP, UDP} :
        LET hostPort      == SubSeq(deviceName, Len(containerName) + 2, i)
            containerPort == SubSeq(deviceName, i + 2, j)
        IN  /\ AllDigits(hostPort)
            /\ AllDigits(containerPort)
            /\ deviceName = containerName \o <<"-">> \o hostPort \o <<"-">>
                              \o containerPort \o <<"-">> \o protocol

\* C11: isPortDevice(deviceName, containerName) is true iff deviceName is
\* exactly containerName followed by -<digits>-<digits>-tcp or
\* -<digits>-<digits>-udp, the container name being matched literally: a
\* proxy device of a listed configuration is reported iff its name has that
\* shape for the listed container, and isPortDevice says so.
C11_IsPortDeviceLiteralName ==
    ListSucceeded =>
        \A d \in Listed :
            /\ isPortDevice(d.name, lst.containerName)
                  <=> OwnPortName(d.name, lst.containerName)
            /\ d.type = PROXY =>
                  (d.name \in MappingNames <=> OwnPortName(d.name, lst.containerName))

C11_Witness ==
    /\ ListSucceeded
    /\ lst.containerName = <<"w", ".">>
    /\ \E d \in Listed : d.name = <<"w", "x", "-", "8", "0", "-", "8", "-", "t", "c", "p">>
    /\ MappingNames = { <<"w", ".", "-", "8", "0", "-", "8", "-", "t", "c", "p">> }

\* the devices parsePortMappingsFromConfig is to report
Wanted ==
    { d \in Listed : d.type = PROXY /\ isPortDevice(d.name, lst.containerName) }

\* C12: a listing that parsed its configuration holds exactly one mapping for
\* each device whose type is proxy and whose name satisfies isPortDevice for
\* the listed container, and none for any other device; with no such device
\* the list is empty and the error is nil.
C12_OneMappingPerOwnProxyDevice ==
    ListSucceeded =>
        /\ Len(lst.mappings) = Cardinality(Wanted)
        /\ \A d \in Wanted :
             \E i \in 1..Len(lst.mappings) : lst.mappings[i] = parsePortMapping(d.name, d)
        /\ \A i \in 1..Len(lst.mappings) :
             \E d \in Wanted : lst.mappings[i].DeviceName = d.name
        /\ Wanted = {} => (lst.mappings = <<>> /\ lst.result = Nil)

C12_Witness ==
    /\ ListSucceeded
    /\ Len(lst.mappings) = 1
    /\ \E d \in Listed : d.type # PROXY /\ isPortDevice(d.name, lst.containerName)

IsFetch(c) == c.op = "GetContainerConfig"

\* C13: listPortForwarding fails on an empty name before any external call;
\* fails with "does not exist" and without a fetch when the oracle reports
\* the container absent; fails when the fetch fails or the document does not
\* parse; its external calls are the existence check, then the fetch, each at
\* most once, and never a device-creation command.
C13_ListCallsAndFailures ==
    /\ (ListReturned /\ lst.containerName = <<>>) =>
          /\ lst.result = Err("container name is required", <<>>)
          /\ lst.calls = <<>>
    /\ (Len(lst.calls) >= 1 /\ ~lst.calls[1].ret) =>
          /\ ListReturned
          /\ lst.result = Err("container '%s' does not exist", <<lst.containerName>>)
          /\ Len(lst.calls) = 1
    /\ (Len(lst.calls) = 2 /\ ~lst.calls[2].ret) =>
          /\ ListReturned
          /\ lst.result = Err("failed to get container configuration: %w", <<>>)
    /\ (lst.doc # <<>> /\ ~lst.doc[1].valid) =>
          /\ ListReturned
          /\ lst.result = Err("failed to parse port mappings: %w", <<>>)
    /\ Len(lst.calls) <= 2
    /\ Len(lst.calls) >= 1 => IsExists(lst.calls[1])
    /\ Len(lst.calls) = 2 => IsFetch(lst.calls[2])
    /\ \A i \in 1..Len(lst.calls) : ~IsCreate(lst.calls[i])
    /\ calls = <<>>

C13_Witness ==
    /\ ListReturned
    /\ Len(lst.calls) = 2
    /\ lst.doc # <<>> /\ ~lst.doc[1].valid
    /\ Listed # {}

\* C14 (as the specification states it): the rows of a listing do not depend
\* on the order in which the device map is ranged, so that two listings of
\* the same document give the same rows in the same order.
C14_RowsIndependentOfIterationOrder ==
    ListSucceeded =>
        \A order \in IterationOrders(Listed) :
            parsePortMappingsFromConfig(lst.doc[1], lst.containerName, order).mappings
                = lst.mappings

\* every device that passes the type and name filter parses: the skip branch
\* of parsePortMappingsFromConfig is never taken
FilteredDevicesParse ==
    \A d \in DevicePool, c \in ListNames :
        isPortDevice(d.name, c) => parsePortMapping(d.name, d).err = Nil

NonEmpty(s) == s # <<>>

\* the pieces of s between the occurrences of the character sep
Fields(s, sep) ==
    LET seps   == { i \in 1..Len(s) : s[i] = sep }
        n      == Cardinality(seps) + 1
        cut(k) == IF k = 0 THEN 0
                  ELSE IF k = n THEN Len(s) + 1
                  ELSE CHOOSE i \in seps : Cardinality({ j \in seps : j < i }) = k - 1
    IN  [k \in 1..n |-> SubSeq(s, cut(k - 1) + 1, cut(k) - 1)]

Lines(text) == Fields(text, "\n")

\* the blank-separated words of a line
Words(line) == SelectSeq(Fields(line, " "), NonEmpty)

ColumnTitles ==
    << <<"P", "R", "O", "T", "O", "C", "O", "L">>,
       <<"H", "O", "S", "T">>, <<"P", "O", "R", "T">>,
       <<"C", "O", "N", "T", "A", "I", "N", "E", "R">>, <<"P", "O", "R", "T">>,
       <<"H", "O", "S", "T">>, <<"I", "P">>,
       <<"C", "O", "N", "T", "A", "I", "N", "E", "R">>, <<"I", "P">>,
       <<"D", "E", "V", "I", "C", "E">>, <<"N", "A", "M", "E">> >>

\* the table a successful listing with mappings has printed
PrintedTable == lst.stdout[2].arg

\* C20: formatPortMappings gives the empty string for an empty list; for n
\* mappings it gives a header line that begins with PROTOCOL and names the
\* columns protocol, host port, container port, host IP, container IP, device
\* name, then a separator line, then exactly n rows, the i-th row holding the
\* fields of the i-th mapping in that column order.
C20_TableHeaderSeparatorRows ==
    /\ formatPortMappings(<<>>) = <<>>
    /\ (ListSucceeded /\ lst.mappings # <<>>) =>
          LET lines == Lines(PrintedTable)
              n     == Len(lst.mappings)
          IN  /\ Len(lines) = n + 3
              /\ lines[n + 3] = <<>>
              /\ HasPrefix(lines[1], ColumnTitles[1])
              /\ Words(lines[1]) = ColumnTitles
              /\ lines[2] # <<>>
              /\ \A k \in 1..Len(lines[2]) : lines[2][k] \in {"-", " "}
              /\ \A i \in 1..n :
                    Words(lines[i + 2]) =
                        << lst.mappings[i].Protocol, lst.mappings[i].HostPort,
                           lst.mappings[i].ContainerPort, lst.mappings[i].HostIP,
                           lst.mappings[i].ContainerIP, lst.mappings[i].DeviceName >>

C20_Witness ==
    /\ ListSucceeded
    /\ Len(lst.mappings) = 2
    /\ lst.mappings[1].Protocol = <<"U", "D", "P">>
    /\ lst.mappings[1].HostIP # lst.mappings[1].ContainerIP
    /\ Len(Lines(PrintedTable)) = 5

----------------------------------------------------------------------------
(* Properties of `port add`, continued *)

\* s without its leading and trailing blanks
TrimSpace(s) ==
    LET inked == { i \in 1..Len(s) : s[i] # " " }
    IN  IF inked = {} THEN <<>>
        ELSE SubSeq(s, CHOOSE i \in inked : \A j \in inked : i <= j,
                       CHOOSE i \in inked : \A j \in inked : j <= i)

\* the request is valid but for its protocol
OtherArgsValid(r) ==
    r.containerName # <<>> /\ ~BadPort(r.hostPort) /\ ~BadPort(r.containerPort)

IsInvalidProtocol(e) ==
    e.msg = "invalid protocol '%s': must be 'tcp', 'udp', or 'both'"

\* the protocols of the legs of a normalized protocol, in order
LegsOf(p) == IF p = BOTH THEN <<TCP, UDP>> ELSE <<p>>

CreatedProtocols == [i \in 1..Len(Creates) |-> Creates[i].protocol]

\* C15 (as the specification states it): a protocol that is tcp, udp or both
\* up to letter case and surrounding blanks is accepted by validation.
C15_TrimmedProtocolAccepted ==
    (Started /\ OtherArgsValid(req)
       /\ ToLower(TrimSpace(req.protocol)) \in {TCP, UDP, BOTH}) =>
        ~IsInvalidProtocol(result)

\* C15 (amended): normalization is lowercase and default-to-tcp, without any
\* trimming.  A protocol that differs from tcp, udp or both by letter case
\* only is accepted, once the container is found the first leg of the
\* lowercased protocol is run, every probe and creation command is for a leg
\* of the lowercased protocol, and a successful call has created exactly those legs
\* in order; the empty protocol gives exactly one creation command, for tcp;
\* a protocol with a leading or trailing blank is rejected by validation as
\* an invalid protocol before any external call.
C15_CaseInsensitiveProtocolNoTrim ==
    /\ (Started /\ OtherArgsValid(req) /\ ~BadProtocol(req.protocol)) =>
          /\ ~IsInvalidProtocol(result)
          /\ Returned => calls # <<>>
          /\ (Returned /\ calls[1].ret) =>
                (Len(calls) >= 2 /\ calls[2].protocol = LegsOf(Normalized(req.protocol))[1])
          /\ \A i \in 1..Len(calls) :
                (IsProbe(calls[i]) \/ IsCreate(calls[i])) =>
                    \E k \in 1..Len(LegsOf(Normalized(req.protocol))) :
                        calls[i].protocol = LegsOf(Normalized(req.protocol))[k]
          /\ (Returned /\ result = Nil) =>
                CreatedProtocols = LegsOf(Normalized(req.protocol))
    /\ (Started /\ req.protocol = <<>> /\ Returned /\ result = Nil) =>
          CreatedProtocols = <<TCP>>
    /\ (Started /\ OtherArgsValid(req) /\ TrimSpace(req.protocol) # req.protocol) =>
          /\ Returned
          /\ result = Err("invalid protocol '%s': must be 'tcp', 'udp', or 'both'",
                          <<ToLower(req.protocol)>>)
          /\ calls = <<>>

C15_Witness ==
    /\ Returned /\ result = Nil
    /\ req.protocol = <<"B", "o", "T", "h">>
    /\ CreatedProtocols = <<TCP, UDP>>

LastCall(cs) == cs[Len(cs)]

\* C18: the availability probe reserves nothing.  No step of the invocation
\* changes the sockets bound on the host; a leg goes from its probe to its
\* creation command on a probe that answered true, with no further probe in
\* between; and once there the creation command can be issued, and is the
\* invocation's next call, whatever is bound on the host by then.
C18_ProbeIsAdvisory ==
    /\ [](pc = "create" => ENABLED Create)
    /\ [][ /\ calls' # calls => bound' = bound
           /\ (pc = "probe" /\ pc' = "create") =>
                 /\ calls' = Append(calls, LastCall(calls'))
                 /\ IsProbe(LastCall(calls')) /\ LastCall(calls').ret
           /\ (pc = "create" /\ calls' # calls) =>
                 /\ calls' = Append(calls, LastCall(calls'))
                 /\ IsCreate(LastCall(calls'))
                 /\ LastCall(calls').protocol = Head(legs)
                 /\ LastCall(calls').args[6] = ExpectedDeviceName(Head(legs)) ]_vars

\* the probe of the leg answered true, the port has been bound by another
\* process since, and the creation command is what the invocation does next
C18_Witness ==
    /\ pc = "create"
    /\ calls # <<>>
    /\ IsProbe(LastCall(calls)) /\ LastCall(calls).ret
    /\ <<LastCall(calls).port, LastCall(calls).protocol>> \in bound
    /\ ENABLED Create

----------------------------------------------------------------------------
(* Properties of helpers.IsPortAvailable *)

ProbeReturned == prb.pc = "done"

InRange(port) == port >= 1 /\ port <= 65535

IsTcpOrUdp(protocol) == ToLower(protocol) \in {TCP, UDP}

----------------------------------------------------------------------------
(* Properties of concurrent invocations *)

DevicesOf(devs, containerName) == { d \in devs : d.container = containerName }

\* C19: a `port add` and a `port list` for different containers, interleaved
\* in any way, do not interfere.  No step writes the package variables; a
\* step of one invocation leaves the state of the other as it was; every
\* external call names the container of its own invocation, every creation
\* command names a device prefixed by that container's name, and the listing
\* issues no command; the add changes the devices of its own container only,
\* so the configuration being listed is untouched.
C19_NoInterference ==
    /\ [](/\ \A i \in 1..Len(calls) :
               /\ IsExists(calls[i]) => calls[i].name = req.containerName
               /\ IsCreate(calls[i]) =>
                     /\ calls[i].args[5] = req.containerName
                     /\ HasPrefix(calls[i].args[6], req.containerName \o <<"-">>)
          /\ \A i \in 1..Len(lst.calls) :
               /\ lst.calls[i].name = lst.containerName
               /\ ~IsCreate(lst.calls[i]))
    /\ [][ /\ flags' = flags
           /\ lst' # lst => UNCHANGED <<addVars, devices, bound>>
           /\ addVars' # addVars =>
                 /\ lst' = lst
                 /\ devices \subseteq devices'
                 /\ \A d \in devices' \ devices : d.container = req.containerName
                 /\ lst.pc # "idle" =>
                       DevicesOf(devices', lst.containerName)
                           = DevicesOf(devices, lst.containerName) ]_vars

\* both invocations are under way: the add has created its tcp device and
\* has its udp leg to run, the listing is between its existence check and
\* its fetch
C19_Witness ==
    /\ pc \in {"probe", "create"}
    /\ Len(Creates) = 1
    /\ lst.pc = "config"
    /\ req.containerName # lst.containerName
    /\ Listed # {}
    /\ DevicesOf(devices, req.containerName) # {}

----------------------------------------------------------------------------
(* Properties of parsePortMapping *)

ParseReturned == prs.pc = "done"

\* the '-'-separated tokens of the device name given to parsePortMapping
NameTokens == Fields(prs.deviceName, "-")

\* C21: parsePortMapping fails with "invalid device name format" iff the
\* device name has fewer than 4 '-'-separated tokens; otherwise it succeeds,
\* the protocol is the last token uppercased, the container port the
\* second-last, the host port the third-last, and the device name is what
\* precedes them followed by those three tokens, whatever hyphens or digit
\* groups the part before them holds.
C21_LastThreeTokens ==
    ParseReturned =>
        LET t == NameTokens
            n == Len(t)
        IN  /\ prs.out.err # Nil <=> n < 4
            /\ n < 4 =>
                  prs.out.err = Err("invalid device name format: %s", <<prs.deviceName>>)
            /\ n >= 4 =>
                  /\ prs.out.Protocol = ToUpper(t[n])
                  /\ prs.out.ContainerPort = t[n - 1]
                  /\ prs.out.HostPort = t[n - 2]
                  /\ prs.out.DeviceName = prs.deviceName
                  /\ \E k \in 0..Len(prs.deviceName) :
                        prs.deviceName =
                            SubSeq(prs.deviceName, 1, k) \o <<"-">> \o prs.out.HostPort
                                \o <<"-">> \o prs.out.ContainerPort \o <<"-">> \o t[n]

C21_Witness ==
    /\ ParseReturned
    /\ Len(NameTokens) = 7
    /\ prs.out.err = Nil
    /\ prs.out.HostPort = <<"8", "0">>
    /\ prs.out.ContainerPort = <<"8">>
    /\ prs.out.Protocol = <<"T", "C", "P">>

IsIPv4(ip) ==
    LET g == Fields(ip, ".")
    IN  Len(g) = 4 /\ \A i \in 1..4 : AllDigits(g[i])

HexChars == Digits \cup {"a", "b", "c", "d", "e", "f"}

\* a bracketed IPv6 literal
IsIPv6(ip) ==
    /\ Len(ip) >= 4
    /\ ip[1] = "[" /\ ip[Len(ip)] = "]"
    /\ \A i \in 2..(Len(ip) - 1) : ip[i] \in HexChars \cup {":"}
    /\ \E i \in 2..(Len(ip) - 1) : ip[i] = ":"

\* the IPs the specification allows parsePortMapping to report for an
\* address attribute: the ip segment of a well-formed proto:ip:port value
\* (an IPv6 literal with or without its brackets), 0.0.0.0 otherwise
ExpectedIPs(addr) ==
    LET colons == { i \in 1..Len(addr) : addr[i] = ":" }
        first  == CHOOSE i \in colons : \A j \in colons : i <= j
        last   == CHOOSE i \in colons : \A j \in colons : j <= i
        ip     == SubSeq(addr, first + 1, last - 1)
    IN  IF Cardinality(colons) < 2 THEN {ANYIP}
        ELSE IF SubSeq(addr, 1, first - 1) \notin {TCP, UDP}
                \/ ~AllDigits(SubSeq(addr, last + 1, Len(addr)))
        THEN {ANYIP}
        ELSE IF IsIPv4(ip) THEN {ip}
        ELSE IF IsIPv6(ip) THEN {ip, SubSeq(ip, 2, Len(ip) - 1)}
        ELSE {ANYIP}

\* C22 (as the specification states it): parsePortMapping never fails because
\* of the connect or listen attribute; the host IP is the ip segment of a
\* well-formed connect value and the container IP that of a well-formed
\* listen value, for IPv4 and IPv6 literals alike, and 0.0.0.0 when the
\* attribute is absent or malformed.
C22_IPSegmentOrDefault ==
    (ParseReturned /\ Len(NameTokens) >= 4) =>
        /\ prs.out.err = Nil
        /\ prs.out.HostIP \in ExpectedIPs(prs.connect)
        /\ prs.out.ContainerIP \in ExpectedIPs(prs.listen)

----------------------------------------------------------------------------
(* Properties of `port add`: device names and the shape of a call *)

Suffix(s, n) == SubSeq(s, Len(s) - n + 1, Len(s))

EndsInLegProtocol(name) ==
    Len(name) >= 4 /\ Suffix(name, 4) \in { <<"-">> \o TCP, <<"-">> \o UDP }

\* C23: every device-creation command, whatever the letter case of the
\* accepted protocol, names a device that ends in exactly -tcp or -udp in
\* lowercase and gives connect and listen values that start with that same
\* protocol; no recorded device has a name ending otherwise (-both, -TCP).
C23_LowercaseLegSuffix ==
    /\ \A i \in 1..Len(Creates) :
         LET a == Creates[i].args
         IN  /\ EndsInLegProtocol(a[6])
             /\ HasPrefix(a[8], S_connectEq \o Suffix(a[6], 3) \o <<":">>)
             /\ HasPrefix(a[9], S_listenEq \o Suffix(a[6], 3) \o <<":">>)
    /\ \A d \in devices :
         /\ EndsInLegProtocol(d.name)
         /\ HasPrefix(d.connect, Suffix(d.name, 3) \o <<":">>)
         /\ HasPrefix(d.listen, Suffix(d.name, 3) \o <<":">>)

C23_Witness ==
    /\ Returned /\ result = Nil
    /\ req.protocol = <<"T", "C", "P">>
    /\ Len(Creates) = 1
    /\ Suffix(Creates[1].args[6], 4) = <<"-", "t", "c", "p">>
    /\ devices # {}

\* the indices of the calls of a kind made for a protocol
CallsFor(kind(_), protocol) ==
    { i \in 1..Len(calls) : kind(calls[i]) /\ calls[i].protocol = protocol }

\* what is left of the call: it decreases with every step of the invocation
Measure(p, l) ==
    IF p = "idle" THEN 7
    ELSE IF p = "exists" THEN 6
    ELSE IF p = "probe" THEN 2 * Len(l)
    ELSE IF p = "create" THEN 2 * Len(l) - 1
    ELSE 0

\* C24: a call is a straight line that ends with one result.  Nothing is
\* called before validation has passed; the existence query is the first
\* call and the only one of its kind; each leg has at most one probe (none
\* when forced) and at most one creation command, the probe first, and every
\* tcp call comes before every udp call; only the last call can have failed;
\* tcp and udp issue at most one creation command, both at most two; every
\* step of the invocation brings it nearer to its end, and once it has
\* returned nothing more happens to it.
C24_StraightLineOneShot ==
    /\ [](/\ pc = "idle" => calls = <<>>
          /\ calls # <<>> => (IsExists(calls[1]) /\ ~InvalidRequest(req))
          /\ \A i \in 2..Len(calls) : IsProbe(calls[i]) \/ IsCreate(calls[i])
          /\ \A p \in {TCP, UDP} :
               /\ Cardinality(CallsFor(IsProbe, p)) <= 1
               /\ Cardinality(CallsFor(IsCreate, p)) <= 1
               /\ \A i \in CallsFor(IsProbe, p), j \in CallsFor(IsCreate, p) : i < j
          /\ req.force => Probes = <<>>
          /\ \A i, j \in 2..Len(calls) :
               (calls[i].protocol = TCP /\ calls[j].protocol = UDP) => i < j
          /\ \A i \in 1..(Len(calls) - 1) : calls[i].ret
          /\ Len(Creates) <= Len(LegsOf(Normalized(req.protocol)))
          /\ Len(calls) <= 5)
    /\ [][ /\ addVars' # addVars =>
                 (Measure(pc', legs') < Measure(pc, legs) /\ Measure(pc', legs') >= 0)
           /\ pc = "done" => UNCHANGED addVars ]_vars

C24_Witness ==
    /\ Returned /\ result = Nil
    /\ Normalized(req.protocol) = BOTH
    /\ ~req.force
    /\ Len(calls) = 5
    /\ IsProbe(calls[2]) /\ IsCreate(calls[3]) /\ IsProbe(calls[4]) /\ IsCreate(calls[5])

\* a decimal numeral of an integer in 1..65535 with no sign and no leading zero
Canonical(s) ==
    /\ AllDigits(s)
    /\ s[1] # "0"
    /\ Atoi(s).n >= 1 /\ Atoi(s).n <= 65535

\* C27 (as the specification states it): the port segments of every issued
\* device name are canonical decimal numerals of integers in 1..65535, so
\* that numerically equal ports give the same device name.
C27_CanonicalPortSegments ==
    \A i \in 1..Len(Creates) :
        LET t == Fields(Creates[i].args[6], "-")
            n == Len(t)
        IN  n >= 4 /\ Canonical(t[n - 2]) /\ Canonical(t[n - 1])

----------------------------------------------------------------------------
(* Properties of an add followed by a listing *)

\* C26 (as the specification states it): once an add has succeeded and the
\* configuration records its devices, a listing of the same container that
\* succeeds holds, for every created device, a mapping with the device's
\* name, the requested host port and container port and the leg's protocol.
C26_CreatedDevicesAreListed ==
    (Returned /\ result = Nil /\ ListSucceeded /\ lst.containerName = req.containerName) =>
        \A i \in 1..Len(Creates) :
            \E k \in 1..Len(lst.mappings) :
                /\ lst.mappings[k].DeviceName = Creates[i].args[6]
                /\ lst.mappings[k].HostPort = req.hostPort
                /\ lst.mappings[k].ContainerPort = req.containerPort
                /\ ToLower(lst.mappings[k].Protocol) = Creates[i].protocol

----------------------------------------------------------------------------
(* Properties of helpers.IsPortAvailable, continued *)

\* C25: IsPortAvailable leaves the sockets bound on the host as they were:
\* no call changes them, the socket of a probe that answered true is not
\* bound once the call has returned, and a call repeated with the same port
\* and protocol answers as the call before it did.
C25_ProbeLeavesNoSocket ==
    /\ [](ProbeReturned =>
            /\ prb.ret => <<prb.port, ToLower(prb.protocol)>> \notin bound
            /\ \A i \in 1..Len(prb.prev) :
                 /\ prb.prev[i].ret =>
                       <<prb.prev[i].port, ToLower(prb.prev[i].protocol)>> \notin bound
                 /\ (prb.prev[i].port = prb.port /\ prb.prev[i].protocol = prb.protocol) =>
                       prb.ret = prb.prev[i].ret
                 /\ (prb.prev[i].port = prb.port /\ IsTcpOrUdp(prb.protocol)
                       /\ InRange(prb.port)) =>
                       (prb.ret <=> <<prb.port, ToLower(prb.protocol)>> \notin bound))
    /\ [][bound' = bound]_vars

C25_Witness ==
    /\ ProbeReturned
    /\ prb.prev # <<>>
    /\ prb.prev[1].port = 80 /\ prb.prev[1].protocol = TCP /\ prb.prev[1].ret
    /\ prb.port = 80 /\ prb.protocol = TCP /\ prb.ret

----------------------------------------------------------------------------
(* Properties of `create` *)

CreateReturned == crt.pc = "done"

\* the steps of createContainer after the name check, in the claim's order
ClaimedOrder ==
    << "GetOrCreateBtrfsPool", "ContainerExists", "CreateContainer",
       "ConfigureContainerSecurity", "RunInContainer apt-get update",
       "InstallDockerInContainer", "RunInContainer useradd", "SetUserPassword",
       "RunInContainer usermod", "StoreContainerPassword", "RestartContainer" >>

\* the k-th call let the run go on: the container did not exist yet, the
\* password store returned anything, every other step returned no error
Passed(k) ==
    IF crt.calls[k].op = "ContainerExists" THEN ~crt.calls[k].ret
    ELSE IF crt.calls[k].op = "StoreContainerPassword" THEN TRUE
    ELSE crt.calls[k].ret

CreateOps == { crt.calls[k].op : k \in 1..Len(crt.calls) }

\* C28: createContainer makes its manager calls in the one fixed order, after
\* the name check (an empty name fails with no call at all); a call is made
\* only if every earlier one passed; a step other than the password store
\* that fails ends the call with an error and nothing after it; a password
\* store that fails is ignored and the restart still follows; a container
\* that already exists ends the call with "already exists", after two calls
\* and without CreateContainer; the call succeeds only after all eleven.
C28_FixedOrderFirstFailureAborts ==
    /\ (crt.name = <<>> /\ CreateReturned) =>
           /\ crt.result = Err("container name is required (use --name)", <<>>)
           /\ crt.calls = <<>>
    /\ crt.calls # <<>> => crt.name # <<>>
    /\ Len(crt.calls) <= Len(ClaimedOrder)
    /\ \A k \in 1..Len(crt.calls) :
         /\ crt.calls[k].op = ClaimedOrder[k]
         /\ k < Len(crt.calls) => Passed(k)
         /\ ~Passed(k) => (CreateReturned /\ crt.result # Nil /\ k = Len(crt.calls))
    /\ (Len(crt.calls) >= 2 /\ crt.calls[2].ret) =>
           /\ CreateReturned
           /\ crt.result = Err("container '%s' already exists", <<crt.name>>)
           /\ "CreateContainer" \notin CreateOps
           /\ Len(crt.calls) = 2
    /\ (Len(crt.calls) >= 10 /\ ~crt.calls[10].ret) =>
           (~CreateReturned \/ Len(crt.calls) = 11)
    /\ (CreateReturned /\ crt.result = Nil) =>
           (Len(crt.calls) = 11 /\ crt.calls[11].ret)
    /\ (CreateReturned /\ crt.name # <<>> /\ crt.result # Nil) =>
           ~Passed(Len(crt.calls))
    /\ \A k \in 1..Len(crt.calls) :
         crt.calls[k].op \in {"SetUserPassword", "StoreContainerPassword"} =>
             crt.calls[k].args = <<crt.name, crt.password>>
    /\ \A k \in 1..Len(crt.calls) :
         crt.calls[k].op = "CreateContainer" =>
             crt.calls[k].args[5] = crt.storagePool

\* a created container whose password could not be stored
C28_Witness ==
    /\ CreateReturned
    /\ crt.result = Nil
    /\ Len(crt.calls) = 11
    /\ ~crt.calls[10].ret

----------------------------------------------------------------------------
(* Properties of `gpu` *)

GpuReturned == gpu.pc = "done"

GpuOps == { gpu.calls[k].op : k \in 1..Len(gpu.calls) }

Restarts == { k \in 1..Len(gpu.calls) : gpu.calls[k].op = "RestartContainer" }

ValidArgs == gpu.containerName # "" /\ gpu.action \in {"enable", "disable", "status"}

\* C29: handleGPUAction makes no manager call when the arguments are invalid;
\* its first call is the existence query, and its only one when the container
\* is absent; for enable and disable the second call is the operation of that
\* name, the restart is made at most once, as the third call, only after the
\* operation succeeded, and a returned call whose operation succeeded has
\* made it; status calls nothing but the existence and status queries, issues
\* no configuration command and leaves the configuration as it was.
C29_RestartIffOperationSucceeded ==
    /\ ~ValidArgs => gpu.calls = <<>>
    /\ (GpuReturned /\ ~ValidArgs) => gpu.result # Nil
    /\ gpu.calls # <<>> => gpu.calls[1].op = "ContainerExists"
    /\ (gpu.calls # <<>> /\ ~gpu.calls[1].ret) =>
           /\ Len(gpu.calls) = 1
           /\ GpuReturned
           /\ gpu.result = Err("container '%s' does not exist", <<gpu.containerName>>)
    /\ gpu.action \in {"enable", "disable"} =>
           /\ Len(gpu.calls) >= 2 =>
                  gpu.calls[2].op = (IF gpu.action = "enable" THEN "EnableGPU"
                                     ELSE "DisableGPU")
           /\ Cardinality(Restarts) <= 1
           /\ \A k \in Restarts : k = 3 /\ gpu.calls[2].ret
           /\ (GpuReturned /\ Len(gpu.calls) >= 2 /\ gpu.calls[2].ret) => Restarts = {3}
           /\ (Len(gpu.calls) >= 2 /\ ~gpu.calls[2].ret) =>
                  (GpuReturned /\ gpu.result # Nil /\ Len(gpu.calls) = 2)
           /\ Len(gpu.calls) <= 3
    /\ gpu.action = "status" =>
           /\ GpuOps \subseteq {"ContainerExists", "GetGPUStatus"}
           /\ gpu.cmds = <<>>
           /\ gpu.config = gpu.before

\* an enable that restarted the container
C29_Witness ==
    /\ GpuReturned
    /\ gpu.action = "enable"
    /\ Len(gpu.calls) = 3
    /\ gpu.calls[3].op = "RestartContainer"
    /\ gpu.result = Nil

IssuedCmds == { gpu.cmds[k].cmd : k \in 1..Len(gpu.cmds) }

\* the status GetContainerGPUStatus reports for the configuration
StatusNow == parseGPUStatus(gpu.config)

StatusBefore == parseGPUStatus(gpu.before)

TargetOf(action) ==
    IF action = "enable" THEN [HasGPUDevice |-> TRUE, PrivilegedMode |-> TRUE]
    ELSE [HasGPUDevice |-> FALSE, PrivilegedMode |-> FALSE]

\* C30: enable issues the add-device command only when the status shows no
\* GPU device and the set-privileged-true command only when it shows
\* privileged mode off, and no command of disable; disable issues the
\* remove-device command only when the device is shown and the
\* set-privileged-false command only when privileged mode is shown on, and
\* no command of enable; no command is issued more than once, and none when
\* the status already is the target; once the operation has succeeded the
\* status is the target; an operation repeated right after a successful one
\* of the same action issues no command and leaves the configuration alone.
C30_EnableDisableIdempotent ==
    /\ gpu.action \notin {"enable", "disable"} => gpu.cmds = <<>>
    /\ gpu.action = "enable" =>
           /\ IssuedCmds \subseteq {"device add gpu", "set security.privileged true"}
           /\ "device add gpu" \in IssuedCmds => ~StatusBefore.HasGPUDevice
           /\ "set security.privileged true" \in IssuedCmds => ~StatusBefore.PrivilegedMode
    /\ gpu.action = "disable" =>
           /\ IssuedCmds \subseteq {"device remove gpu", "set security.privileged false"}
           /\ "device remove gpu" \in IssuedCmds => StatusBefore.HasGPUDevice
           /\ "set security.privileged false" \in IssuedCmds => StatusBefore.PrivilegedMode
    /\ Cardinality(IssuedCmds) = Len(gpu.cmds)
    /\ (gpu.action \in {"enable", "disable"} /\ StatusBefore = TargetOf(gpu.action)) =>
           (gpu.cmds = <<>> /\ gpu.config = gpu.before)
    /\ OperationSucceeded(gpu) => StatusNow = TargetOf(gpu.action)
    /\ (gpu.last # <<>> /\ gpu.last[1].ok /\ gpu.last[1].action = gpu.action) =>
           (gpu.cmds = <<>> /\ gpu.config = gpu.before)

\* an enable that followed a successful enable and succeeded again
C30_Witness ==
    /\ gpu.last # <<>>
    /\ gpu.last[1].ok
    /\ gpu.last[1].action = "enable"
    /\ gpu.action = "enable"
    /\ OperationSucceeded(gpu)
    /\ GpuReturned

====
